---------------------------- MODULE Spec2Model ----------------------------
(***************************************************************************)
(* Model of the personal AI agent: the Slack webhook ingress of server.py   *)
(* (slack_events and its in-memory deduplication), the Slack turn of         *)
(* slack.py (stream_slack_response), the ToolManager of server.py/agent.py, *)
(* the execution engine of utils.py (AgentUtils.run_tool) and the command    *)
(* line loop of agent.py.                                                    *)
(*                                                                           *)
(* Texts are sequences of tokens (strings).  A function name is the token    *)
(* sequence of its characters grouped into the pieces the code looks at:     *)
(* "get_calendar_tools" is <<"get_", "calendar", "_tools">>.                 *)
(***************************************************************************)
EXTENDS Integers, Sequences, FiniteSets, TLC

(***************************************************************************)
(* Bounds of the exploration.                                              *)
(***************************************************************************)
\* webhook deliveries explored by the ingress specification
MaxRequests == 4
\* webhook deliveries explored by the turn specification
TurnRequests == 2
\* model invocations explored in a run (the loops themselves have no bound)
MaxModelCalls == 3
\* user inputs explored by the command line loop
MaxCliTurns == 3
\* webhook deliveries explored by the engine specification
EngineRequests == 1
\* calls of UserManager methods explored by the store specification
MaxStoreCalls == 4
\* the largest `limit` handed to get_conversation_history
MaxLimit == 2
\* the longest of the arbitrary texts handed to extract_tool_calls
MaxTextLen == 3
\* calls of update_message
MaxUpdateCalls == 2

(***************************************************************************)
(* Program constants.  The dedup set of slack_events is trimmed to its      *)
(* "last" 500 entries once it holds more than 1000; the model keeps the      *)
(* ratio and scales both down (2 and 1) so that a trim is reachable.         *)
(***************************************************************************)
ProcessedCap == 2
ProcessedKeep == 1

Requests == 1..MaxRequests

(***************************************************************************)
(* Small helpers on sequences.                                             *)
(***************************************************************************)
Range(s) == {s[i] : i \in 1..Len(s)}

Last(s) == s[Len(s)]

IsPrefix(s, t) == Len(s) <= Len(t) /\ SubSeq(t, 1, Len(s)) = s

\* s[-n:] of Python for n >= 0: the last n entries (all of s when it is
\* shorter); s[-0:] is s[0:], all of s
LastN(s, n) == IF n = 0 \/ Len(s) <= n THEN s ELSE SubSeq(s, Len(s) - n + 1, Len(s))

(***************************************************************************)
(* The capability registry: meta_tools.py.                                 *)
(***************************************************************************)
GmailFunctions ==
    << <<"send_email">>, <<"list_emails">>, <<"read_email">>,
       <<"search_emails">>, <<"reply_email">>, <<"forward_email">> >>

CalendarFunctions ==
    << <<"get_", "calendar_events">>, <<"create_calendar_event">>,
       <<"search_calendar_events">>, <<"update_calendar_event">>,
       <<"delete_calendar_event">> >>

ContactsFunctions ==
    << <<"search_contacts_list">>, <<"list_all_contacts">>, <<"add_contact">>,
       <<"delete_contact">>, <<"edit_contact">> >>

DocsFunctions ==
    << <<"create_google_docs_document">>, <<"read_google_docs_document_contents">>,
       <<"list_google_docs_documents">>, <<"edit_google_docs_document">> >>

WebFunctions == << <<"perform_web_search">> >>

\* the keys of meta_tool_map
Categories == {"gmail", "calendar", "contacts", "docs", "web"}

\* AgentUtils.get_function_signatures: one signature per function, in order;
\* a signature is identified by the name of its function
get_function_signatures(functions) == functions

\* MetaTools.get_<category>_tools(): the functions and signatures of a category
MetaTools(category) ==
    LET fs == CASE category = "gmail"    -> GmailFunctions
                [] category = "calendar" -> CalendarFunctions
                [] category = "contacts" -> ContactsFunctions
                [] category = "docs"     -> DocsFunctions
                [] category = "web"      -> WebFunctions
    IN [functions |-> fs, signatures |-> get_function_signatures(fs), category |-> category]

\* the always-available bootstrap operations
meta_tool_functions ==
    << <<"get_", "gmail", "_tools">>, <<"get_", "calendar", "_tools">>,
       <<"get_", "contacts", "_tools">>, <<"get_", "docs", "_tools">>,
       <<"get_", "web", "_tools">> >>

(***************************************************************************)
(* ToolManager (server.py and, with the same code, agent.py).  A tool      *)
(* manager is the record of its three attributes; available_signatures is   *)
(* the sequence of the signature blocks concatenated into the string.       *)
(***************************************************************************)
ToolManagerInit ==
    [loaded_tools |-> <<>>,
     available_functions |-> meta_tool_functions,
     available_signatures |-> <<get_function_signatures(meta_tool_functions)>>]

\* the categories that are keys of loaded_tools (a dict: insertion ordered)
LoadedCategories(tm) == Range(tm.loaded_tools)

\* a reset_tools that leaves the tool manager as the last turn left it
reset_tools_noop(tm) == tm

\* ToolManager.reset_tools
reset_tools(tm) == ToolManagerInit

\* a load_tools without the "not in self.loaded_tools" test
load_tools_unguarded(tm, tool_category) ==
    IF tool_category \in Categories
    THEN [tm |-> [loaded_tools |->
                      IF tool_category \in LoadedCategories(tm) THEN tm.loaded_tools
                      ELSE Append(tm.loaded_tools, tool_category),
                  available_functions |->
                      tm.available_functions \o MetaTools(tool_category).functions,
                  available_signatures |->
                      Append(tm.available_signatures, MetaTools(tool_category).signatures)],
          result |-> <<"Loaded", tool_category, "tools successfully">>]
    ELSE [tm |-> tm, result |-> <<"Unknown tool category:", tool_category>>]

\* a load_tools that registers an unknown category as loaded
load_tools_unknown_loaded(tm, tool_category) ==
    IF tool_category \in LoadedCategories(tm)
    THEN [tm |-> tm, result |-> <<tool_category, "tools already loaded">>]
    ELSE IF tool_category \in Categories
    THEN load_tools_unguarded(tm, tool_category)
    ELSE [tm |-> [tm EXCEPT !.loaded_tools = Append(@, tool_category)],
          result |-> <<"Unknown tool category:", tool_category>>]

\* a load_tools that adds the signatures of a category but not its functions
load_tools_signatures_only(tm, tool_category) ==
    IF tool_category \notin LoadedCategories(tm) /\ tool_category \in Categories
    THEN [tm |-> [tm EXCEPT !.loaded_tools = Append(@, tool_category),
                            !.available_signatures =
                                Append(@, MetaTools(tool_category).signatures)],
          result |-> <<"Loaded", tool_category, "tools successfully">>]
    ELSE [tm |-> tm, result |-> <<"Unknown tool category:", tool_category>>]

\* ToolManager.load_tools: the tool manager afterwards and the returned text
load_tools(tm, tool_category) ==
    IF tool_category \notin LoadedCategories(tm)
    THEN IF tool_category \in Categories
         THEN [tm |-> [loaded_tools |-> Append(tm.loaded_tools, tool_category),
                       available_functions |->
                           tm.available_functions \o MetaTools(tool_category).functions,
                       available_signatures |->
                           Append(tm.available_signatures,
                                  MetaTools(tool_category).signatures)],
               result |-> <<"Loaded", tool_category, "tools successfully">>]
         ELSE [tm |-> tm, result |-> <<"Unknown tool category:", tool_category>>]
    ELSE [tm |-> tm, result |-> <<tool_category, "tools already loaded">>]

(***************************************************************************)
(* The call extractor: extract_tool_calls (server.py and agent.py).        *)
(***************************************************************************)
OpenTag == "<tool_call>"
CloseTag == "</tool_call>"
Blank == " "

\* index of the first token equal to tok at or after position i, 0 if none
RECURSIVE IndexFrom(_, _, _)
IndexFrom(text, tok, i) ==
    IF i > Len(text) THEN 0
    ELSE IF text[i] = tok THEN i
    ELSE IndexFrom(text, tok, i + 1)

\* str.strip(): leading and trailing blanks removed
RECURSIVE strip(_)
strip(s) ==
    IF s = <<>> THEN s
    ELSE IF Head(s) = Blank THEN strip(Tail(s))
    ELSE IF Last(s) = Blank THEN strip(SubSeq(s, 1, Len(s) - 1))
    ELSE s

\* re.findall(r'<tool_call>(.*?)</tool_call>', text, re.DOTALL) from position i:
\* the leftmost opening tag, then the shortest span up to a closing tag
RECURSIVE FindAllFrom(_, _)
FindAllFrom(text, i) ==
    LET o == IndexFrom(text, OpenTag, i)
        c == IF o = 0 THEN 0 ELSE IndexFrom(text, CloseTag, o + 1)
    IN IF o = 0 \/ c = 0 THEN <<>>
       ELSE <<SubSeq(text, o + 1, c - 1)>> \o FindAllFrom(text, c + 1)

\* an extractor that uses re.match: only a block at the start of the text is found
extract_tool_calls_anchored(text) ==
    LET matches == IF text # <<>> /\ Head(text) = OpenTag
                   THEN FindAllFrom(text, 1) ELSE <<>>
    IN [i \in 1..Len(matches) |-> strip(matches[i])]

\* an extractor whose pattern is greedy, r'<tool_call>(.*)</tool_call>': one
\* match, from the first opening tag to the last closing tag
extract_tool_calls_greedy(text) ==
    LET o == IndexFrom(text, OpenTag, 1)
        closes == {c \in 1..Len(text) : c > o /\ text[c] = CloseTag}
        c == IF closes = {} THEN 0 ELSE CHOOSE x \in closes : \A y \in closes : y <= x
    IN IF o = 0 \/ c = 0 THEN <<>> ELSE <<strip(SubSeq(text, o + 1, c - 1))>>

extract_tool_calls(text) ==
    LET matches == FindAllFrom(text, 1)
    IN [i \in 1..Len(matches) |-> strip(matches[i])]

(***************************************************************************)
(* Invocation blocks.  The text of a block is a token sequence; the blocks  *)
(* the model explores are one token long, and json.loads of each is given    *)
(* by the JSON document the token stands for:                                *)
(*   J_load_calendar  {"name": "get_calendar_tools", "arguments": {}, "id": 1}   *)
(*   J_load_gmail     {"name": "get_gmail_tools", "arguments": {}, "id": 1}      *)
(*   J_load_bogus     {"name": "get_bogus_tools", "arguments": {}, "id": 1}      *)
(*   J_load_doubled   {"name": "get_get_calendar_tools", "arguments": {}, "id": 1} *)
(*   J_events         {"name": "get_calendar_events",                            *)
(*                     "arguments": {"date_range": "today"}, "id": 2}            *)
(*   J_events_badkey  {"name": "get_calendar_events",                            *)
(*                     "arguments": {"when": "today"}, "id": 2}                  *)
(*   J_events_raises  {"name": "get_calendar_events",                            *)
(*                     "arguments": {"date_range": 5}, "id": 2}                  *)
(*                    (the operation raises on this argument)                    *)
(*   J_no_name        {"arguments": {}, "id": 3}                                 *)
(*   J_no_arguments   {"name": "get_calendar_events", "id": 3}                   *)
(*   J_list           [1, 2]                                                     *)
(* Every other text (for instance the token "{oops") is not JSON.              *)
(***************************************************************************)
JsonObject(keys, name, arguments) ==
    [kind |-> "object", keys |-> keys, name |-> name, arguments |-> arguments]

JsonDocuments ==
    [J_load_calendar |-> JsonObject({"name", "arguments", "id"},
                                    <<"get_", "calendar", "_tools">>, "bindable"),
     J_load_gmail    |-> JsonObject({"name", "arguments", "id"},
                                    <<"get_", "gmail", "_tools">>, "bindable"),
     J_load_bogus    |-> JsonObject({"name", "arguments", "id"},
                                    <<"get_", "bogus", "_tools">>, "bindable"),
     J_load_doubled  |-> JsonObject({"name", "arguments", "id"},
                                    <<"get_", "get_", "calendar", "_tools">>, "bindable"),
     J_events        |-> JsonObject({"name", "arguments", "id"},
                                    <<"get_", "calendar_events">>, "bindable"),
     J_events_badkey |-> JsonObject({"name", "arguments", "id"},
                                    <<"get_", "calendar_events">>, "unbindable"),
     J_events_raises |-> JsonObject({"name", "arguments", "id"},
                                    <<"get_", "calendar_events">>, "raising"),
     J_no_name       |-> JsonObject({"arguments", "id"}, <<>>, "bindable"),
     J_no_arguments  |-> JsonObject({"name", "id"},
                                    <<"get_", "calendar_events">>, "none"),
     J_list          |-> [kind |-> "list", keys |-> {}, name |-> <<>>, arguments |-> "none"]]

\* json.loads: the parsed value, or kind "JSONDecodeError" when the text is not JSON
json_loads(text) ==
    IF Len(text) = 1 /\ text[1] \in DOMAIN JsonDocuments
    THEN JsonDocuments[text[1]]
    ELSE [kind |-> "JSONDecodeError", keys |-> {}, name |-> <<>>, arguments |-> "none"]

\* tool_call.get("name", default): AttributeError unless the value is a dict
HasGet(value) == value.kind = "object"

DictGet(value, key, default) ==
    IF key \in value.keys THEN value[key] ELSE default

\* function_name.startswith('get_') and function_name.endswith('_tools')
IsMetaToolCall(function_name) ==
    /\ function_name # <<>>
    /\ Head(function_name) = "get_"
    /\ Last(function_name) = "_tools"

\* function_name.replace('get_', '').replace('_tools', ''): every occurrence
\* of either piece is removed
RECURSIVE RemoveToken(_, _)
RemoveToken(name, tok) ==
    IF name = <<>> THEN <<>>
    ELSE IF Head(name) = tok THEN RemoveToken(Tail(name), tok)
    ELSE <<Head(name)>> \o RemoveToken(Tail(name), tok)

\* the category string: the remaining pieces, a single piece for the names explored
ToolCategory(function_name) ==
    LET rest == RemoveToken(RemoveToken(function_name, "get_"), "_tools")
    IN IF Len(rest) = 1 THEN rest[1] ELSE ""

(***************************************************************************)
(* The execution engine: AgentUtils.run_tool (utils.py).  The value is the  *)
(* returned text, or the exception that leaves run_tool.                     *)
(***************************************************************************)
Returned(text) == [raised |-> "", result |-> text]
Raised(exception) == [raised |-> exception, result |-> <<>>]

\* str(e) of what func(**arguments) raises
ErrorText(arguments) ==
    IF arguments = "unbindable" THEN "TypeError: unexpected keyword argument"
    ELSE "the error of the operation"

\* a run_tool that calls func(**arguments) outside a try block
run_tool_unwrapped(tool_call_json, functions) ==
    LET tool_call == json_loads(tool_call_json)
    IN IF tool_call.kind = "JSONDecodeError" THEN Raised("JSONDecodeError")
       ELSE IF tool_call.kind # "object" THEN Raised("TypeError")
       ELSE IF "name" \notin tool_call.keys THEN Raised("KeyError")
       ELSE IF "arguments" \notin tool_call.keys THEN Raised("KeyError")
       ELSE IF tool_call.name \notin Range(functions)
            THEN Returned(<<"Error: Function">> \o tool_call.name \o <<"not found">>)
       ELSE IF tool_call.arguments = "bindable"
            THEN Returned(<<"result of">> \o tool_call.name)
            ELSE Raised(ErrorText(tool_call.arguments))

run_tool(tool_call_json, functions) ==
    LET tool_call == json_loads(tool_call_json)
    IN IF tool_call.kind = "JSONDecodeError" THEN Raised("JSONDecodeError")
       \* tool_call["name"] on a list
       ELSE IF tool_call.kind # "object" THEN Raised("TypeError")
       ELSE IF "name" \notin tool_call.keys THEN Raised("KeyError")
       ELSE IF "arguments" \notin tool_call.keys THEN Raised("KeyError")
       ELSE IF tool_call.name \notin Range(functions)
            THEN Returned(<<"Error: Function">> \o tool_call.name \o <<"not found">>)
       \* func(**arguments): a TypeError of the binding is caught with the rest
       ELSE IF tool_call.arguments = "bindable"
            THEN Returned(<<"result of">> \o tool_call.name)
            ELSE Returned(<<"Error executing">> \o tool_call.name
                              \o <<":", ErrorText(tool_call.arguments)>>)

(***************************************************************************)
(* State.                                                                  *)
(***************************************************************************)
VARIABLES
    program,              \* which entry point runs: "server" (server.py) or "cli" (agent.py)
    tool_manager,         \* the process-wide ToolManager instance
    \* ---- server.py: slack_events, one invocation per webhook delivery
    pc,                   \* position of each invocation of slack_events
    envelope,             \* the JSON body of each delivery
    response,             \* what each invocation returned
    processed_events,     \* slack_events._processed_events
    \* ---- slack.py: the locals of stream_slack_response, per invocation
    user_email,
    conversation_context,
    current_interaction_memory,
    system_prompt,
    messages,
    tool_calls,           \* the calls of the current response not yet processed
    tool_calls_made,
    \* ---- the collaborators
    slack_posts,          \* what each invocation posted to its channel, in order
    conversation_history, \* the DynamoDB item of each user: conversation_history
    store_up,             \* whether the DynamoDB table answers its requests
    now,                  \* datetime.now(timezone.utc), in ticks
    \* ---- user_manager.py: concurrent callers of a UserManager
    client,               \* per caller: the call it is in and the locals of that call
    store_calls,          \* calls of UserManager methods started so far
    applied,              \* per identity: the messages whose update_item was applied
    pruned,               \* per identity: whether a cleanup has written its list
    \* ---- extract_tool_calls applied to a text
    extract_pc,
    given_text,
    extracted,
    text_before_tools,
    \* ---- slack.py: the Slack client and the calls of update_message
    slack_bot_token,      \* whether os.environ holds SLACK_BOT_TOKEN
    slack_client,         \* whether the global slack_client is set
    update_calls,         \* calls of update_message made so far
    update_args,          \* the arguments of the last call of update_message
    update_failed,        \* whether the last call left its try block by an exception
    slack_calls,          \* the calls of post_message and the Web API requests
                          \* made by the last call of update_message, in order
    \* ---- history variables
    invocations,          \* model.invoke calls made by each turn
    model_calls,          \* model.invoke calls made since the process started
    insert_log,           \* the dedup keys in the order they were added
    fresh,                \* the keys added since the dedup set was last trimmed
    seen_fresh,           \* per invocation: its key was in `fresh` when it was looked up
    outcome,              \* per invocation: how slack_events disposed of the delivery
    peers,                \* per invocation: the invocations for the same event that
                          \* were in flight when it arrived
    ever_loaded,          \* the categories loaded since the process started
    failure,              \* per invocation: the exception that ended its turn, if any
    store_ops,            \* per invocation: the store writes and reads its turn made, and the
                          \* store operations of its turn that failed
    \* ---- agent.py: the command line loop
    cli_pc,
    cli_turn,
    cli_user_input,       \* user_input of agent.py
    cli_memory,
    cli_messages,
    cli_calls,
    cli_results,
    cli_history,          \* conversation_history of agent.py
    cli_invocations

serverVars == <<pc, envelope, response, processed_events>>
turnVars == <<user_email, conversation_context, current_interaction_memory,
              system_prompt, messages, tool_calls, tool_calls_made>>
worldVars == <<slack_posts, conversation_history, store_up, now>>
ghostVars == <<invocations, model_calls, insert_log, fresh, seen_fresh, outcome, peers,
               ever_loaded>>
cliVars == <<cli_pc, cli_turn, cli_user_input, cli_memory, cli_messages, cli_calls,
             cli_results, cli_history, cli_invocations>>
auditVars == <<failure, store_ops>>
storeVars == <<client, store_calls, applied, pruned>>
extractVars == <<extract_pc, given_text, extracted, text_before_tools>>
notifyVars == <<slack_bot_token, slack_client, update_calls, update_args, update_failed,
                slack_calls>>
unitVars == <<storeVars, extractVars, notifyVars>>
vars == <<program, tool_manager, serverVars, turnVars, worldVars, ghostVars, auditVars,
          cliVars, unitVars>>

(***************************************************************************)
(* Webhook envelopes.  `bot_id` says whether the event carries a bot id (a  *)
(* non-empty string, as Slack's ids are), `subtype` whether it carries the   *)
(* key; text is a token sequence in which ">" is a token of its own;         *)
(* text_is_str is false when the value of "text" is not a string (null, a    *)
(* number); json is the kind of JSON value the body is.                      *)
(***************************************************************************)
None == "None"

Event(etype, ts, user, text) ==
    [json |-> "object",
     type |-> "event_callback", challenge |-> None, etype |-> etype, bot_id |-> FALSE,
     subtype |-> FALSE, ts |-> ts, channel |-> "C1", user |-> user, text |-> text,
     text_is_str |-> TRUE,
     thread_ts |-> None]

EnvHi1 == Event("message", "1.0", "U1", <<"hi">>)
EnvHi2 == Event("message", "2.0", "U1", <<"hi">>)
EnvYo == Event("message", "3.0", "U2", <<"yo">>)
\* an app_mention that is the mention alone: "<@B1>"
EnvMention == Event("app_mention", "4.0", "U1", <<"<@B1", ">">>)
EnvBot == [Event("message", "5.0", "U1", <<"hi">>) EXCEPT !.bot_id = TRUE]
\* an edit of a message: the event carries "subtype": "message_changed"
EnvEdited == [Event("message", "6.0", "U1", <<"hi">>) EXCEPT !.subtype = TRUE]
\* a body that is a JSON array
EnvNotObject == [Event("", "", "", <<>>) EXCEPT !.json = "array", !.type = ""]
\* an event without the key "text": event.get("text", "") is ""
EnvNoText == Event("message", "7.0", "U1", <<>>)
\* an event with "text": null
EnvTextNull == [Event("message", "8.0", "U1", <<>>) EXCEPT !.text_is_str = FALSE]
\* Slack's endpoint verification: {"type": "url_verification", "challenge": ...}
Challenge(token) ==
    [Event("", "", "", <<>>) EXCEPT !.type = "url_verification", !.challenge = token]
EnvChallenge1 == Challenge("3eZbrw1a")
EnvChallenge2 == Challenge("Xq9fT0pL")

\* hashlib.md5(event_text.encode()).hexdigest()[:8] of the texts explored
text_hash(event_text) ==
    CASE event_text = <<"hi">> -> "49f68a5c"
      [] event_text = <<"yo">> -> "6d0007e5"
      [] event_text = <<"<@B1", ">">> -> "2de16452"
      [] OTHER -> "d41d8cd9"

\* f"{event_ts}_{event_channel}_{event_user}_{text_hash}"
event_id(event) ==
    <<event.ts, "_", event.channel, "_", event.user, "_", text_hash(event.text)>>

\* message_text.split('>', 1)[-1].strip()
after_mention(text) ==
    LET i == IndexFrom(text, ">", 1)
    IN strip(IF i = 0 THEN text ELSE SubSeq(text, i + 1, Len(text)))

message_text_of(event) ==
    IF event.etype = "app_mention" THEN after_mention(event.text) ELSE event.text

(***************************************************************************)
(* The dedup set: lines 168-173 of slack_events.  A Python set has no       *)
(* insertion order: list(s)[-500:] is the last 500 entries of the set's      *)
(* iteration order, which follows the (per process randomised) string        *)
(* hashes.  Any subset of the kept size can be the outcome.                  *)
(***************************************************************************)
\* an add that is lost
processed_after_add_lost(processed, id) == {processed}

\* a trim that runs as soon as the set reaches its capacity
processed_after_add_eager(processed, id) ==
    LET added == processed \cup {id}
    IN IF Cardinality(added) >= ProcessedCap
       THEN {kept \in SUBSET added : Cardinality(kept) = ProcessedKeep}
       ELSE {added}

\* the sets that _processed_events can be after the add and the trim
processed_after_add(processed, id) ==
    LET added == processed \cup {id}
    IN IF Cardinality(added) > ProcessedCap
       THEN {kept \in SUBSET added : Cardinality(kept) = ProcessedKeep}
       ELSE {added}

\* whether the add of id makes the set exceed its capacity
trims(processed, id) == Cardinality(processed \cup {id}) > ProcessedCap

(***************************************************************************)
(* The event loop.  slack_events is a coroutine (async def) that awaits     *)
(* only request.json(); from there to its return it runs on the event loop   *)
(* thread, the synchronous call of stream_slack_response included.  Another  *)
(* invocation resumes only while no invocation is running.                   *)
(***************************************************************************)
Suspended == {"idle", "recv", "done"}

\* a server whose invocations run on worker threads
EventLoopFreeThreads == TRUE

EventLoopFree == \A h \in Requests : pc[h] \in Suspended

StatusOk == [status |-> "ok", challenge |-> None]

\* raise HTTPException(status_code=400, detail=f"Error: {str(e)}")
HTTP400 == [status |-> "400", challenge |-> None]

\* a verification answered like an event
challenge_response_ok(body) == StatusOk

\* line 138: return {"challenge": body.get("challenge")}
challenge_response(body) == [status |-> None, challenge |-> body.challenge]

\* line 143: event.get("bot_id")
skip_bot_message(event) == event.bot_id

\* a filter that looks at the type of the event only
handled_event_any_subtype(event) == event.etype \in {"message", "app_mention"}

\* line 147: event.get("type") in ["message", "app_mention"] and
\* "subtype" not in event
handled_event(event) == event.etype \in {"message", "app_mention"} /\ ~event.subtype

(***************************************************************************)
(* The Conversation Store: user_manager.py, as the Slack turn uses it.     *)
(***************************************************************************)
Emails == {"alice@example.com"}

\* the default of limit / context_limit
ContextLimit == 10

\* the identities that have an item in the table
Identities == Emails \cup {"bob@example.com"}

\* lines 82-91 of update_conversation_history: timestamp is
\* datetime.now(timezone.utc).isoformat() taken when the message is built
new_message(timestamp, message_type, content, calls) ==
    [timestamp |-> timestamp, message_type |-> message_type, content |-> content,
     tool_calls |-> calls]

\* an update_item that appends to the list of every identity
update_item_all(history, email, message) ==
    [e \in DOMAIN history |-> Append(history[e], message)]

\* lines 93-101: table.update_item with SET conversation_history =
\* list_append(if_not_exists(conversation_history, :empty_list), :new_message),
\* which DynamoDB applies to the item of `email` as one operation
update_item(history, email, message) ==
    [history EXCEPT ![email] = Append(@, message)]

\* UserManager.update_conversation_history: list_append of one message
update_conversation_history(history, email, message_type, content, calls) ==
    update_item(history, email, new_message(now, message_type, content, calls))

\* UserManager.get_conversation_history
get_conversation_history(history, email, limit) ==
    IF Len(history[email]) > limit THEN LastN(history[email], limit) ELSE history[email]

\* save_user_message / save_assistant_message: update_conversation_history
\* with its try block; when the table request raises, nothing is appended and
\* False is returned
save_message(history, email, message_type, content, calls) ==
    IF store_up
    THEN update_conversation_history(history, email, message_type, content, calls)
    ELSE history

Reverse(s) == [i \in 1..Len(s) |-> s[Len(s) + 1 - i]]

\* UserManager.get_conversation_context: one line per message, walking
\* reversed(history); the tools line reads call.get('function_name', 'unknown')
get_conversation_context(history, email) ==
    LET recent == get_conversation_history(history, email, ContextLimit)
        line(msg) == [message_type |-> msg.message_type, content |-> msg.content,
                      tools |-> [i \in 1..Len(msg.tool_calls) |-> <<"unknown">>]]
    IN [i \in 1..Len(recent) |-> line(Reverse(recent)[i])]

\* get_user_context: when the table request raises, get_conversation_history
\* returns [] and the context is the empty string
get_user_context(history, email) ==
    IF store_up THEN get_conversation_context(history, email) ELSE <<>>

\* the store operations of a turn: writes made, reads made, operations failed
StoreOps(writes, reads, failures) ==
    [writes |-> writes, reads |-> reads, failures |-> failures]

\* a turn that saves its answer whoever the sender is
saves_assistant_message_always(email) == TRUE

\* line 196: `if user_email:` before save_assistant_message
saves_assistant_message(email) == email # None

\* format_for_slack: re.sub(r'\*\*(.*?)\*\*', r'*\1*', text); "**" is a token
RECURSIVE format_for_slack(_)
format_for_slack(text) ==
    LET o == IndexFrom(text, "**", 1)
        c == IF o = 0 THEN 0 ELSE IndexFrom(text, "**", o + 1)
    IN IF o = 0 \/ c = 0 THEN text
       ELSE SubSeq(text, 1, o - 1) \o <<"*">> \o SubSeq(text, o + 1, c - 1) \o <<"*">>
            \o format_for_slack(SubSeq(text, c + 1, Len(text)))

(***************************************************************************)
(* Prompts: create_system_prompt and the message list handed to the model.  *)
(***************************************************************************)
create_system_prompt(interaction_memory, available_tools, context) ==
    [tools |-> available_tools, memory |-> interaction_memory, context |-> context]

AgentResponse(content) ==
    [type |-> "agent_response", function |-> <<>>, text |-> content]

ToolCall(function_name, result) ==
    [type |-> "tool_call", function |-> function_name, text |-> result]

\* lines 252-259 of slack.py: the memory replayed as chat messages
replay(memory) ==
    [i \in 1..Len(memory) |->
        IF memory[i].type = "agent_response"
        THEN [role |-> "assistant", text |-> memory[i].text]
        ELSE [role |-> "human",
              text |-> <<"Tool">> \o memory[i].function \o <<"returned:">> \o memory[i].text]]

NoPrompt == create_system_prompt(<<>>, <<>>, <<>>)
NoMessages == [system |-> NoPrompt, rest |-> <<>>]

(***************************************************************************)
(* server.py: slack_events.                                                *)
(***************************************************************************)
NoEnvelope == [Event("", "", "", <<>>) EXCEPT !.type = ""]

\* the locals of a turn that is not running
ClearTurn(h) ==
    /\ user_email' = [user_email EXCEPT ![h] = None]
    /\ conversation_context' = [conversation_context EXCEPT ![h] = <<>>]
    /\ current_interaction_memory' = [current_interaction_memory EXCEPT ![h] = <<>>]
    /\ system_prompt' = [system_prompt EXCEPT ![h] = NoPrompt]
    /\ messages' = [messages EXCEPT ![h] = NoMessages]
    /\ tool_calls' = [tool_calls EXCEPT ![h] = <<>>]
    /\ tool_calls_made' = [tool_calls_made EXCEPT ![h] = <<>>]

\* slack_events returns value: the invocation is over
Return(h, value, how) ==
    /\ pc' = [pc EXCEPT ![h] = "done"]
    /\ response' = [response EXCEPT ![h] = value]
    /\ outcome' = [outcome EXCEPT ![h] = IF @ = "pending" THEN how ELSE @]

\* A delivery arrives: the coroutine starts and awaits request.json().
Deliver(h, body) ==
    /\ program = "server"
    /\ pc[h] = "idle"
    \* deliveries are numbered in the order they arrive
    /\ IF h = 1 THEN TRUE ELSE pc[h - 1] # "idle"
    /\ pc' = [pc EXCEPT ![h] = "recv"]
    /\ envelope' = [envelope EXCEPT ![h] = body]
    /\ peers' = [peers EXCEPT ![h] = {g \in Requests : /\ pc[g] \notin {"idle", "done"}
                                                       /\ envelope[g] = body}]
    /\ UNCHANGED <<program, tool_manager, response, processed_events, turnVars,
                   worldVars, invocations, model_calls, insert_log, fresh, seen_fresh,
                   outcome, ever_loaded, auditVars, cliVars, unitVars>>

\* Lines 134-166: the body is parsed, the event filtered and its key looked up.
Ingress(h) ==
    LET body == envelope[h]
        id == event_id(body)
    IN
    /\ pc[h] = "recv"
    /\ EventLoopFree
    /\ IF body.json # "object"
       THEN \* body.get raises AttributeError, caught at line 187
            Return(h, HTTP400, "error") /\ UNCHANGED seen_fresh
       ELSE IF body.type = "url_verification"
       THEN /\ Return(h, challenge_response(body), "challenge")
            /\ UNCHANGED seen_fresh
       ELSE IF body.type # "event_callback"
       THEN Return(h, StatusOk, "ignored") /\ UNCHANGED seen_fresh
       ELSE IF skip_bot_message(body)
       THEN Return(h, StatusOk, "bot") /\ UNCHANGED seen_fresh
       ELSE IF ~handled_event(body)
       THEN Return(h, StatusOk, "ignored") /\ UNCHANGED seen_fresh
       ELSE IF ~body.text_is_str
       THEN \* event_text.encode() raises AttributeError, caught at line 187
            Return(h, HTTP400, "error") /\ UNCHANGED seen_fresh
       ELSE /\ seen_fresh' = [seen_fresh EXCEPT ![h] = id \in fresh]
            /\ IF id \in processed_events
               THEN Return(h, StatusOk, "duplicate")
               ELSE /\ pc' = [pc EXCEPT ![h] = "add"]
                    /\ UNCHANGED <<response, outcome>>
    /\ UNCHANGED <<program, tool_manager, envelope, processed_events, turnVars,
                   worldVars, invocations, model_calls, insert_log, fresh, peers,
                   ever_loaded, auditVars, cliVars, unitVars>>

\* Lines 168-183: the key is added, the set trimmed, and the turn started when
\* the message text is not empty.
AddEvent(h) ==
    LET event == envelope[h]
        id == event_id(event)
    IN
    /\ pc[h] = "add"
    /\ \E kept \in processed_after_add(processed_events, id) :
           processed_events' = kept
    /\ insert_log' = Append(insert_log, id)
    /\ fresh' = IF trims(processed_events, id) THEN {} ELSE fresh \cup {id}
    /\ IF message_text_of(event) # <<>>
       THEN /\ pc' = [pc EXCEPT ![h] = "turn"]
            /\ outcome' = [outcome EXCEPT ![h] = "turn"]
            /\ UNCHANGED response
       ELSE Return(h, StatusOk, "empty")
    /\ UNCHANGED <<program, tool_manager, envelope, turnVars, worldVars,
                   invocations, model_calls, seen_fresh, peers, ever_loaded, auditVars,
                   cliVars, unitVars>>

(***************************************************************************)
(* slack.py: stream_slack_response.                                        *)
(***************************************************************************)
Post(h, kind) == slack_posts' = [slack_posts EXCEPT ![h] = Append(@, kind)]

\* an except clause that swallows the exception without a notice
Except_silent(h, e) ==
    /\ UNCHANGED slack_posts
    /\ failure' = [failure EXCEPT ![h] = e]
    /\ Return(h, StatusOk, "turn")
    /\ ClearTurn(h)

\* Lines 263-266: the exception e is caught and "Error: <e>" posted; then the
\* return to slack_events, which returns status ok.
Except(h, e) ==
    /\ Post(h, "error")
    /\ failure' = [failure EXCEPT ![h] = e]
    /\ Return(h, StatusOk, "turn")
    /\ ClearTurn(h)

\* Lines 115-163: the sender is resolved, the user message saved, the tools
\* reset and the first prompt built.  email is what get_user_email returns.
TurnStart(h, email) ==
    LET history == IF email # None
                   THEN save_message(conversation_history, email, "user",
                            message_text_of(envelope[h]), <<>>)
                   ELSE conversation_history
        tm == reset_tools(tool_manager)
        context == IF email # None THEN get_user_context(history, email) ELSE <<>>
        prompt == create_system_prompt(<<>>, tm.available_signatures, context)
    IN
    /\ pc[h] = "turn"
    /\ user_email' = [user_email EXCEPT ![h] = email]
    /\ conversation_history' = history
    /\ tool_manager' = tm
    /\ current_interaction_memory' = [current_interaction_memory EXCEPT ![h] = <<>>]
    /\ conversation_context' = [conversation_context EXCEPT ![h] = context]
    /\ system_prompt' = [system_prompt EXCEPT ![h] = prompt]
    /\ messages' = [messages EXCEPT ![h] = [system |-> prompt, rest |-> <<>>]]
    /\ tool_calls_made' = [tool_calls_made EXCEPT ![h] = <<>>]
    /\ pc' = [pc EXCEPT ![h] = "invoke"]
    \* the save and the read of the context, when the sender is known
    /\ store_ops' = [store_ops EXCEPT ![h] =
                         IF email = None THEN @
                         ELSE IF store_up
                         THEN StoreOps(@.writes + 1, @.reads + 1, @.failures)
                         ELSE StoreOps(@.writes, @.reads, @.failures + 2)]
    /\ UNCHANGED <<program, envelope, response, processed_events, tool_calls,
                   slack_posts, store_up, ghostVars, failure, cliVars, unitVars>>
    /\ now' = IF email = None THEN now ELSE now + 1

\* Lines 166-207: model.invoke returns content; without calls the final text
\* is posted and saved and the turn is over.
ModelResponds(h, content) ==
    LET memory == Append(current_interaction_memory[h], AgentResponse(content))
        calls == extract_tool_calls(content)
    IN
    /\ pc[h] = "invoke"
    /\ model_calls < MaxModelCalls
    /\ model_calls' = model_calls + 1
    /\ invocations' = [invocations EXCEPT ![h] = @ + 1]
    /\ IF calls = <<>>
       THEN /\ Post(h, "final")
            /\ conversation_history' =
                   IF saves_assistant_message(user_email[h])
                   THEN save_message(conversation_history, user_email[h], "assistant",
                            format_for_slack(content), tool_calls_made[h])
                   ELSE conversation_history
            /\ now' = IF saves_assistant_message(user_email[h]) THEN now + 1 ELSE now
            /\ store_ops' = [store_ops EXCEPT ![h] =
                                 IF ~saves_assistant_message(user_email[h]) THEN @
                                 ELSE IF store_up
                                 THEN StoreOps(@.writes + 1, @.reads, @.failures)
                                 ELSE StoreOps(@.writes, @.reads, @.failures + 1)]
            /\ Return(h, StatusOk, "turn")
            /\ ClearTurn(h)
       ELSE /\ current_interaction_memory' =
                   [current_interaction_memory EXCEPT ![h] = memory]
            /\ tool_calls' = [tool_calls EXCEPT ![h] = calls]
            /\ pc' = [pc EXCEPT ![h] = "exec"]
            /\ UNCHANGED <<response, outcome, user_email, conversation_context,
                           system_prompt, messages, tool_calls_made, slack_posts,
                           conversation_history, store_ops, now>>
    /\ UNCHANGED <<program, tool_manager, envelope, processed_events, insert_log,
                   fresh, seen_fresh, peers, ever_loaded, store_up, failure, cliVars, unitVars>>

\* Line 167 raises: the model backend failed.
ModelFails(h) ==
    /\ pc[h] = "invoke"
    /\ model_calls < MaxModelCalls
    /\ model_calls' = model_calls + 1
    /\ invocations' = [invocations EXCEPT ![h] = @ + 1]
    /\ Except(h, "ModelError")
    /\ UNCHANGED <<program, tool_manager, envelope, processed_events,
                   conversation_history, store_up, now, insert_log, fresh, seen_fresh, peers,
                   ever_loaded, store_ops, cliVars, unitVars>>

\* a loop that drops the last call of the batch instead of the one it ran
remaining_but_last(calls) == SubSeq(calls, 1, Len(calls) - 1)

\* `for tool_call_str in tool_calls`: the calls left after the current one
remaining(calls) == Tail(calls)

\* Lines 210-261: one iteration of the for loop over the calls of a response,
\* and after the last one the return to the head of the while loop.
ProcessCall(h) ==
    LET tool_call_str == Head(tool_calls[h])
        rest == remaining(tool_calls[h])
        tool_call == json_loads(tool_call_str)
        function_name == DictGet(tool_call, "name", <<"unknown">>)
        made == Append(tool_calls_made[h],
                       [function |-> function_name,
                        arguments |-> DictGet(tool_call, "arguments", "none")])
        loaded == load_tools(tool_manager, ToolCategory(function_name))
        ran == run_tool(tool_call_str, tool_manager.available_functions)
        tm == IF IsMetaToolCall(function_name) THEN loaded.tm ELSE tool_manager
        result == IF IsMetaToolCall(function_name) THEN loaded.result ELSE ran.result
        memory == Append(current_interaction_memory[h], ToolCall(function_name, result))
        prompt == create_system_prompt(memory, tm.available_signatures,
                                       conversation_context[h])
        next == IF rest = <<>> THEN "invoke" ELSE "exec"
    IN
    /\ pc[h] = "exec"
    /\ IF tool_call.kind = "JSONDecodeError"
       THEN \* except json.JSONDecodeError: continue
            /\ tool_calls' = [tool_calls EXCEPT ![h] = rest]
            /\ pc' = [pc EXCEPT ![h] = next]
            /\ messages' = [messages EXCEPT ![h].system =
                               IF rest = <<>> THEN system_prompt[h] ELSE @]
            /\ UNCHANGED <<tool_manager, response, outcome, user_email,
                           conversation_context, current_interaction_memory,
                           system_prompt, tool_calls_made, slack_posts, failure>>
       ELSE IF ~HasGet(tool_call)
       THEN \* tool_call.get raises AttributeError
            /\ Except(h, "AttributeError")
            /\ UNCHANGED tool_manager
       ELSE IF ~IsMetaToolCall(function_name) /\ ran.raised # ""
       THEN \* run_tool raises after the call was tracked and announced
            /\ slack_posts' = [slack_posts EXCEPT ![h] = @ \o <<"executing", "error">>]
            /\ failure' = [failure EXCEPT ![h] = ran.raised]
            /\ Return(h, StatusOk, "turn")
            /\ ClearTurn(h)
            /\ UNCHANGED tool_manager
       ELSE /\ tool_calls_made' = [tool_calls_made EXCEPT ![h] = made]
            /\ Post(h, "executing")
            /\ tool_manager' = tm
            /\ current_interaction_memory' =
                   [current_interaction_memory EXCEPT ![h] = memory]
            /\ system_prompt' = [system_prompt EXCEPT ![h] = prompt]
            /\ messages' = [messages EXCEPT ![h] =
                               [system |-> prompt, rest |-> replay(memory)]]
            /\ tool_calls' = [tool_calls EXCEPT ![h] = rest]
            /\ pc' = [pc EXCEPT ![h] = next]
            /\ UNCHANGED <<response, outcome, user_email, conversation_context,
                           failure>>
    /\ ever_loaded' = ever_loaded \cup LoadedCategories(tool_manager')
    /\ UNCHANGED <<program, envelope, processed_events, conversation_history,
                   store_up, now, invocations, model_calls, insert_log, fresh, seen_fresh,
                   peers, store_ops, cliVars, unitVars>>

(***************************************************************************)
(* agent.py: the command line loop.  Its ToolManager is the same code as    *)
(* the one of server.py; its memory entries also keep the text of the call.  *)
(***************************************************************************)
\* "Keep conversation history manageable": 20 entries in agent.py, scaled to
\* two exchanges so that three user inputs reach the cut
CliHistoryCap == 4

\* a cut that keeps the oldest entries
keep_oldest(history) ==
    IF Len(history) > CliHistoryCap THEN SubSeq(history, 1, CliHistoryCap) ELSE history

\* lines 192-193: if len(conversation_history) > 20, the last 20 entries
keep_manageable(history) ==
    IF Len(history) > CliHistoryCap THEN LastN(history, CliHistoryCap) ELSE history

CliAgentResponse(content) ==
    [type |-> "agent_response", function |-> <<>>, call |-> <<>>, text |-> content]

CliToolCall(function_name, call, result) ==
    [type |-> "tool_call", function |-> function_name, call |-> call, text |-> result]

\* Lines 106-114: a user input is read, memory and tools are reset and the
\* messages are built from the conversation history.
CliInput(user_input) ==
    LET tm == reset_tools(tool_manager)
        prompt == create_system_prompt(<<>>, tm.available_signatures, <<>>)
    IN
    /\ program = "cli"
    /\ cli_pc = "input"
    /\ cli_turn < MaxCliTurns
    /\ cli_turn' = cli_turn + 1
    /\ cli_user_input' = user_input
    /\ cli_memory' = <<>>
    /\ tool_manager' = tm
    /\ cli_messages' = [system |-> prompt,
                        rest |-> cli_history \o <<[role |-> "human", text |-> user_input]>>]
    /\ cli_invocations' = 0
    /\ cli_pc' = "invoke"
    /\ UNCHANGED <<program, serverVars, turnVars, worldVars, ghostVars, auditVars,
                   unitVars, cli_calls, cli_results, cli_history>>

\* Lines 118-139 and 187-196: model.invoke returns content; without calls the
\* answer is printed and the exchange appended to the conversation history.
CliModelResponds(content) ==
    LET calls == extract_tool_calls(content)
        history == cli_history \o <<[role |-> "human",
                                     text |-> cli_messages.rest[Len(cli_history) + 1].text],
                                    [role |-> "assistant", text |-> content]>>
    IN
    /\ program = "cli"
    /\ cli_pc = "invoke"
    /\ model_calls < MaxModelCalls
    /\ model_calls' = model_calls + 1
    /\ cli_invocations' = cli_invocations + 1
    /\ cli_memory' = Append(cli_memory, CliAgentResponse(content))
    /\ IF calls = <<>>
       THEN /\ cli_history' = keep_manageable(history)
            /\ cli_pc' = "input"
            /\ UNCHANGED <<cli_calls, cli_results>>
       ELSE /\ cli_calls' = calls
            /\ cli_results' = <<>>
            /\ cli_pc' = "exec"
            /\ UNCHANGED cli_history
    /\ UNCHANGED <<program, tool_manager, serverVars, turnVars, worldVars, invocations,
                   insert_log, fresh, seen_fresh, outcome, peers, ever_loaded,
                   auditVars, unitVars, cli_turn, cli_user_input, cli_messages>>

\* Lines 143-185: one iteration of the for loop over the calls of a response,
\* and after the last one the tool results are added to the messages.
CliProcessCall ==
    LET i == Len(cli_results) + 1
        tool_call == cli_calls[i]
        call_data == json_loads(tool_call)
        function_name == DictGet(call_data, "name", <<"tool_call_", ToString(i)>>)
        loaded == load_tools(tool_manager, ToolCategory(function_name))
        ran == run_tool(tool_call, tool_manager.available_functions)
        meta == call_data.kind = "object" /\ IsMetaToolCall(function_name)
        failed == \/ call_data.kind # "object"
                  \/ ~IsMetaToolCall(function_name) /\ ran.raised # ""
        name == IF call_data.kind = "JSONDecodeError"
                THEN <<"invalid_tool_call_", ToString(i)>>
                ELSE IF failed THEN <<"error_tool_call_", ToString(i)>>
                ELSE function_name
        result == IF call_data.kind = "JSONDecodeError"
                  THEN <<"Error: Invalid JSON format in tool call">>
                  ELSE IF call_data.kind # "object" THEN <<"Error:", "AttributeError">>
                  ELSE IF meta THEN loaded.result
                  ELSE IF ran.raised # "" THEN <<"Error:", ran.raised>>
                  ELSE ran.result
        memory == Append(cli_memory, CliToolCall(name, tool_call, result))
        results == Append(cli_results, name \o <<"result:">> \o result)
        tm == IF meta THEN loaded.tm ELSE tool_manager
        last == i = Len(cli_calls)
    IN
    /\ program = "cli"
    /\ cli_pc = "exec"
    /\ tool_manager' = tm
    /\ cli_memory' = memory
    /\ cli_results' = IF last THEN <<>> ELSE results
    /\ cli_calls' = IF last THEN <<>> ELSE cli_calls
    /\ cli_messages' =
           IF last
           THEN [system |-> create_system_prompt(memory, tm.available_signatures, <<>>),
                 rest |-> cli_messages.rest \o
                          <<[role |-> "assistant", text |-> Last(SelectSeq(cli_memory,
                                 LAMBDA e : e.type = "agent_response")).text],
                            [role |-> "human", text |-> <<"Tool results:">> \o results]>>]
           ELSE cli_messages
    /\ cli_pc' = IF last THEN "invoke" ELSE "exec"
    /\ ever_loaded' = ever_loaded \cup LoadedCategories(tm)
    /\ UNCHANGED <<program, serverVars, turnVars, worldVars, invocations, model_calls,
                   insert_log, fresh, seen_fresh, outcome, peers, auditVars, unitVars,
                   cli_turn, cli_user_input, cli_history, cli_invocations>>

(***************************************************************************)
(* Inputs explored.                                                        *)
(***************************************************************************)
RespFinal == <<"done">>
RespLoadCalendar == <<"thinking", OpenTag, Blank, "J_load_calendar", Blank, CloseTag>>
RespLoadGmail == <<OpenTag, "J_load_gmail", CloseTag>>
RespBogusThenEvents ==
    <<OpenTag, "J_load_bogus", CloseTag, OpenTag, "J_events", CloseTag>>
RespBadJson == <<OpenTag, "{oops", CloseTag>>
RespNoName == <<OpenTag, "J_no_name", CloseTag, OpenTag, "J_events", CloseTag>>

Responses == {RespFinal, RespLoadCalendar, RespLoadGmail, RespBogusThenEvents,
              RespBadJson, RespNoName}

\* responses whose first call fails in one of the ways a call can fail
RespBadJsonThenLoad ==
    <<OpenTag, "{oops", CloseTag, OpenTag, "J_load_calendar", CloseTag>>
RespListThenLoad ==
    <<OpenTag, "J_list", CloseTag, OpenTag, "J_load_calendar", CloseTag>>
RespNoArgumentsThenLoad ==
    <<OpenTag, "J_no_arguments", CloseTag, OpenTag, "J_load_calendar", CloseTag>>
RespLoadThenFailures ==
    <<OpenTag, "J_load_calendar", CloseTag, OpenTag, "J_events_badkey", CloseTag,
      OpenTag, "J_events_raises", CloseTag, OpenTag, "J_events", CloseTag>>
\* a name that is no operation but starts with get_ and ends with _tools
RespLoadDoubled == <<OpenTag, "J_load_doubled", CloseTag>>
\* an opening tag that is never closed: re.findall matches nothing
RespUnclosed == <<"**", "done", "**", OpenTag, "J_events">>

EngineResponses ==
    {RespFinal, RespLoadCalendar, RespBogusThenEvents, RespNoName, RespBadJsonThenLoad,
     RespListThenLoad, RespNoArgumentsThenLoad, RespLoadThenFailures, RespLoadDoubled,
     RespUnclosed}

Envelopes == {EnvHi1, EnvHi2, EnvMention, EnvBot}

TurnEnvelopes == {EnvHi1, EnvYo}

UserInputs == {<<"hi">>}

(***************************************************************************)
(* Specifications.                                                         *)
(***************************************************************************)
(***************************************************************************)
(* user_manager.py under concurrent callers.  Each request to the table     *)
(* (get_item, update_item) is one step; what a method does between two       *)
(* requests is part of the step of the request that follows.                 *)
(***************************************************************************)
\* two callers, each in at most one call at a time
Clients == {"caller1", "caller2"}

NoMessage == new_message(0, "", <<>>, <<>>)

\* a caller that is in no call; item is the list a get_item returned,
\* returned is recent_messages or filtered_history
IdleClient ==
    [pc |-> "idle", op |-> "", email |-> None, limit |-> 0, new_message |-> NoMessage,
     cutoff_timestamp |-> 0, item |-> <<>>, returned |-> <<>>]

\* lines 174-177: msg.get('timestamp', '') >= cutoff_timestamp
filtered_history(history, cutoff_timestamp) ==
    SelectSeq(history, LAMBDA msg : msg.timestamp >= cutoff_timestamp)

\* update_conversation_history, lines 80-91: the message is built and stamped
UpdateBegin(c, email, message_type) ==
    /\ client[c].pc = "idle"
    /\ store_calls < MaxStoreCalls
    /\ store_calls' = store_calls + 1
    /\ client' = [client EXCEPT ![c] =
                      [IdleClient EXCEPT !.pc = "update_item", !.op = "update",
                                         !.email = email,
                                         !.new_message =
                                             new_message(now, message_type, <<"hi">>, <<>>)]]
    /\ now' = now + 1
    /\ UNCHANGED <<program, tool_manager, serverVars, turnVars, slack_posts,
                   conversation_history, store_up, ghostVars, auditVars, cliVars,
                   applied, pruned, extractVars, notifyVars>>

\* update_conversation_history, lines 93-104: update_item is applied
UpdateItem(c) ==
    /\ client[c].pc = "update_item"
    /\ conversation_history' =
           update_item(conversation_history, client[c].email, client[c].new_message)
    /\ applied' = [applied EXCEPT ![client[c].email] = @ \cup {client[c].new_message}]
    /\ client' = [client EXCEPT ![c].pc = "idle"]
    /\ UNCHANGED <<program, tool_manager, serverVars, turnVars, slack_posts, store_up,
                   now, ghostVars, auditVars, cliVars, store_calls, pruned, extractVars,
                   notifyVars>>

\* get_conversation_history(email, limit): one get_item
GetHistory(c, email, limit) ==
    /\ client[c].pc = "idle"
    /\ store_calls < MaxStoreCalls
    /\ store_calls' = store_calls + 1
    /\ client' = [client EXCEPT ![c] =
                      [IdleClient EXCEPT !.op = "get", !.email = email, !.limit = limit,
                                         !.item = conversation_history[email],
                                         !.returned = get_conversation_history(
                                                          conversation_history, email, limit)]]
    /\ UNCHANGED <<program, tool_manager, serverVars, turnVars, worldVars, ghostVars,
                   auditVars, cliVars, applied, pruned, extractVars, notifyVars>>

\* cleanup_old_conversations, lines 160-179: the cutoff, get_item and the filter
CleanupBegin(c, email, cutoff_timestamp) ==
    LET history == conversation_history[email]
        filtered == filtered_history(history, cutoff_timestamp)
        old_count == Len(history) - Len(filtered)
    IN
    /\ client[c].pc = "idle"
    /\ store_calls < MaxStoreCalls
    /\ store_calls' = store_calls + 1
    /\ client' = [client EXCEPT ![c] =
                      [IdleClient EXCEPT !.pc = IF old_count > 0 THEN "cleanup_write"
                                                ELSE "idle",
                                         !.op = "cleanup", !.email = email,
                                         !.cutoff_timestamp = cutoff_timestamp,
                                         !.item = history, !.returned = filtered]]
    /\ UNCHANGED <<program, tool_manager, serverVars, turnVars, worldVars, ghostVars,
                   auditVars, cliVars, applied, pruned, extractVars, notifyVars>>

\* cleanup_old_conversations, lines 181-190: update_item with
\* SET conversation_history = :filtered_history
CleanupWrite(c) ==
    /\ client[c].pc = "cleanup_write"
    /\ conversation_history' =
           [conversation_history EXCEPT ![client[c].email] = client[c].returned]
    /\ pruned' = [pruned EXCEPT ![client[c].email] = TRUE]
    /\ client' = [client EXCEPT ![c].pc = "idle"]
    /\ UNCHANGED <<program, tool_manager, serverVars, turnVars, slack_posts, store_up,
                   now, ghostVars, auditVars, cliVars, store_calls, applied, extractVars,
                   notifyVars>>

(***************************************************************************)
(* slack.py: update_message and post_message.  A call of update_message is  *)
(* one step: the function is synchronous and waits for each request.         *)
(***************************************************************************)
UpdateArgs(channel, text, message_ts, thread_ts) ==
    [channel |-> channel, text |-> text, message_ts |-> message_ts,
     thread_ts |-> thread_ts]

NoUpdate == UpdateArgs("", <<>>, "", None)

\* a call of post_message, and a request sent to the Web API
Called(function, channel, text, thread_ts) ==
    [kind |-> "call", name |-> function, channel |-> channel, text |-> text,
     ts |-> None, thread_ts |-> thread_ts]
WebApiRequest(method, channel, text, ts, thread_ts) ==
    [kind |-> "request", name |-> method, channel |-> channel, text |-> text,
     ts |-> ts, thread_ts |-> thread_ts]

\* _get_slack_client: the client exists or can be made from the token;
\* otherwise RuntimeError
client_available == slack_client \/ slack_bot_token

\* lines 42-53: post_message(channel, text, thread_ts) gets the client and
\* sends chat_postMessage; every exception is logged and None returned
post_message(channel, text, thread_ts) ==
    <<Called("post_message", channel, text, thread_ts)>>
    \o IF client_available
       THEN <<WebApiRequest("chat_postMessage", channel, text, None, thread_ts)>>
       ELSE <<>>

\* a fallback that posts to the channel, outside the thread
fallback_unthreaded(args) == post_message(args.channel, args.text, None)

\* lines 107 and 110: return post_message(channel, text, thread_ts)
fallback(args) == post_message(args.channel, args.text, args.thread_ts)

\* Lines 99-110: update_message(channel, text, message_ts, thread_ts);
\* chat_update is what the request to the Web API does.
UpdateMessage(args, chat_update) ==
    LET failed == ~client_available \/ chat_update # "ok"
    IN
    /\ program = "server"
    /\ update_calls < MaxUpdateCalls
    /\ update_calls' = update_calls + 1
    /\ update_args' = args
    /\ update_failed' = failed
    /\ slack_client' = client_available
    /\ slack_calls' =
           (IF client_available
            THEN <<WebApiRequest("chat_update", args.channel, args.text, args.message_ts,
                              None)>>
            ELSE <<>>)
           \o (IF failed THEN fallback(args) ELSE <<>>)
    /\ UNCHANGED <<program, tool_manager, serverVars, turnVars, worldVars, ghostVars,
                   auditVars, cliVars, storeVars, extractVars, slack_bot_token>>

\* The environment of the process gains or loses SLACK_BOT_TOKEN.
TokenChanges ==
    /\ program = "server"
    /\ slack_bot_token' = ~slack_bot_token
    /\ UNCHANGED <<program, tool_manager, serverVars, turnVars, worldVars, ghostVars,
                   auditVars, cliVars, storeVars, extractVars, slack_client,
                   update_calls, update_args, update_failed, slack_calls>>

InitBase(p) ==
    /\ program = p
    /\ tool_manager = ToolManagerInit
    /\ pc = [h \in Requests |-> "idle"]
    /\ envelope = [h \in Requests |-> NoEnvelope]
    /\ response = [h \in Requests |-> [status |-> None, challenge |-> None]]
    /\ processed_events = {}
    /\ user_email = [h \in Requests |-> None]
    /\ conversation_context = [h \in Requests |-> <<>>]
    /\ current_interaction_memory = [h \in Requests |-> <<>>]
    /\ system_prompt = [h \in Requests |-> NoPrompt]
    /\ messages = [h \in Requests |-> NoMessages]
    /\ tool_calls = [h \in Requests |-> <<>>]
    /\ tool_calls_made = [h \in Requests |-> <<>>]
    /\ slack_posts = [h \in Requests |-> <<>>]
    /\ conversation_history = [e \in Identities |-> <<>>]
    /\ store_up = TRUE
    /\ now = 1
    /\ client = [c \in Clients |-> IdleClient]
    /\ store_calls = 0
    /\ applied = [e \in Identities |-> {}]
    /\ pruned = [e \in Identities |-> FALSE]
    /\ invocations = [h \in Requests |-> 0]
    /\ model_calls = 0
    /\ insert_log = <<>>
    /\ fresh = {}
    /\ seen_fresh = [h \in Requests |-> FALSE]
    /\ outcome = [h \in Requests |-> "pending"]
    /\ peers = [h \in Requests |-> {}]
    /\ ever_loaded = {}
    /\ failure = [h \in Requests |-> ""]
    /\ store_ops = [h \in Requests |-> StoreOps(0, 0, 0)]
    /\ cli_pc = "input"
    /\ cli_turn = 0
    /\ cli_user_input = <<>>
    /\ cli_memory = <<>>
    /\ cli_messages = NoMessages
    /\ cli_calls = <<>>
    /\ cli_results = <<>>
    /\ cli_history = <<>>
    /\ cli_invocations = 0
    /\ slack_client = FALSE
    /\ update_calls = 0
    /\ update_args = NoUpdate
    /\ update_failed = FALSE
    /\ slack_calls = <<>>

InitProgram(p) ==
    /\ slack_bot_token = TRUE
    /\ InitBase(p)
    /\ extract_pc = "off"
    /\ given_text = <<>>
    /\ extracted = <<>>
    /\ text_before_tools = <<>>

\* The turn specification: either entry point, few deliveries, varied responses.
Init == \E p \in {"server", "cli"} : InitProgram(p)

Next ==
    \/ \E h \in 1..TurnRequests, body \in TurnEnvelopes : Deliver(h, body)
    \/ \E h \in Requests : Ingress(h)
    \/ \E h \in Requests : AddEvent(h)
    \/ \E h \in Requests, email \in Emails \cup {None} : TurnStart(h, email)
    \/ \E h \in Requests, content \in Responses : ModelResponds(h, content)
    \/ \E h \in Requests : ModelFails(h)
    \/ \E h \in Requests : ProcessCall(h)
    \/ \E user_input \in UserInputs : CliInput(user_input)
    \/ \E content \in Responses : CliModelResponds(content)
    \/ CliProcessCall

Spec == Init /\ [][Next]_vars

\* The ingress specification: the server, more deliveries of more kinds, and a
\* model that answers every turn at once.
InitIngress == InitProgram("server")

NextIngress ==
    \/ \E h \in Requests, body \in Envelopes : Deliver(h, body)
    \/ \E h \in Requests : Ingress(h)
    \/ \E h \in Requests : AddEvent(h)
    \/ \E h \in Requests : TurnStart(h, None)
    \/ \E h \in Requests : ModelResponds(h, RespFinal)

SpecIngress == InitIngress /\ [][NextIngress]_vars

\* The envelope specification: the server, few deliveries, and envelopes of
\* every kind the handler tells apart, the malformed ones included.
AllEnvelopes == {EnvHi1, EnvMention, EnvBot, EnvEdited, EnvNotObject, EnvNoText,
                 EnvTextNull, EnvChallenge1, EnvChallenge2}

NextEnvelope ==
    \/ \E h \in 1..TurnRequests, body \in AllEnvelopes : Deliver(h, body)
    \/ \E h \in Requests : Ingress(h)
    \/ \E h \in Requests : AddEvent(h)
    \/ \E h \in Requests : TurnStart(h, None)
    \/ \E h \in Requests : ModelResponds(h, RespFinal)

SpecEnvelope == InitIngress /\ [][NextEnvelope]_vars

\* The store specification: concurrent callers of the UserManager methods for
\* two identities.
InitStore == InitProgram("server")

NextStore ==
    \/ \E c \in Clients, email \in Identities, message_type \in {"user", "assistant"} :
           UpdateBegin(c, email, message_type)
    \/ \E c \in Clients : UpdateItem(c)
    \/ \E c \in Clients, email \in Identities, limit \in 0..MaxLimit :
           GetHistory(c, email, limit)
    \/ \E c \in Clients, email \in Identities, cutoff_timestamp \in 1..now :
           CleanupBegin(c, email, cutoff_timestamp)
    \/ \E c \in Clients : CleanupWrite(c)

SpecStore == InitStore /\ [][NextStore]_vars

(***************************************************************************)
(* extract_tool_calls and the text printed before the calls (agent.py,      *)
(* lines 127-137), applied to a given response.                              *)
(***************************************************************************)
\* text.split(tok)[0]: the text before the first tok, all of it without one
before_first(text, tok) ==
    LET i == IndexFrom(text, tok, 1)
    IN IF i = 0 THEN text ELSE SubSeq(text, 1, i - 1)

Block(body) == <<OpenTag>> \o body \o <<CloseTag>>

\* prose followed by two well-formed blocks
Proses == {<<"thinking">>, <<Blank, "thinking", Blank>>, <<"a", Blank, "b">>}
Bodies == {<<"J_events">>, <<Blank, "J_events", Blank>>, <<"{", Blank, "}">>,
           <<Blank>>}
Betweens == {<<>>, <<Blank>>, <<"then">>}
TwoBlockTexts ==
    {prose \o Block(first) \o between \o Block(second) :
        prose \in Proses, first \in Bodies, between \in Betweens, second \in Bodies}

\* every text of at most MaxTextLen tokens over words, blanks and the markers
Alphabet == {"a", Blank, OpenTag, CloseTag}
ShortTexts == UNION {[1..n -> Alphabet] : n \in 0..MaxTextLen}

InitExtract ==
    /\ InitBase("cli")
    /\ slack_bot_token = TRUE
    /\ extract_pc = "given"
    /\ given_text \in TwoBlockTexts \cup ShortTexts
    /\ extracted = <<>>
    /\ text_before_tools = <<>>

\* lines 127 and 134 of agent.py
Extract ==
    /\ extract_pc = "given"
    /\ extracted' = extract_tool_calls(given_text)
    /\ text_before_tools' = strip(before_first(given_text, OpenTag))
    /\ extract_pc' = "done"
    /\ UNCHANGED <<program, tool_manager, serverVars, turnVars, worldVars, ghostVars,
                   auditVars, cliVars, storeVars, notifyVars, given_text>>

NextExtract == Extract

SpecExtract == InitExtract /\ [][NextExtract]_vars

\* The notification specification: calls of update_message with every
\* outcome of the update request, with and without a usable client.
Channels == {"C1", "C2"}
Texts == {<<"done">>, <<"Executing", "get_", "calendar_events">>}
Timestamps == {"11.0", "12.0"}

InitNotify == InitBase("server") /\ slack_bot_token \in BOOLEAN /\ extract_pc = "off"
              /\ given_text = <<>> /\ extracted = <<>> /\ text_before_tools = <<>>

NextNotify ==
    \/ TokenChanges
    \/ \E channel \in Channels, text \in Texts, message_ts \in Timestamps,
          thread_ts \in Timestamps \cup {None},
          chat_update \in {"ok", "SlackApiError", "Exception"} :
           UpdateMessage(UpdateArgs(channel, text, message_ts, thread_ts), chat_update)

SpecNotify == InitNotify /\ [][NextNotify]_vars

\* The calendar scenario: the server, and a model that answers the first
\* invocation of a turn with the call that loads the calendar category, the
\* second with one call of get_calendar_events and the third with a text.
RespEvents == <<OpenTag, "J_events", CloseTag>>

Script == <<RespLoadCalendar, RespEvents, RespFinal>>

ScriptedModel(h) ==
    /\ invocations[h] < Len(Script)
    /\ ModelResponds(h, Script[invocations[h] + 1])

NextScenario ==
    \/ \E h \in 1..TurnRequests, body \in TurnEnvelopes \cup {EnvMention} : Deliver(h, body)
    \/ \E h \in Requests : Ingress(h)
    \/ \E h \in Requests : AddEvent(h)
    \/ \E h \in Requests, email \in Emails \cup {None} : TurnStart(h, email)
    \/ \E h \in Requests : ScriptedModel(h)
    \/ \E h \in Requests : ProcessCall(h)

SpecScenario == InitIngress /\ [][NextScenario]_vars

\* The redelivery specification: the server, deliveries of three events (one
\* of them empty once its mention is stripped), and turns that end with the
\* final text or with a failure of the model.
RedeliveredEnvelopes == {EnvHi1, EnvHi2, EnvMention}

NextRedelivery ==
    \/ \E h \in Requests, body \in RedeliveredEnvelopes : Deliver(h, body)
    \/ \E h \in Requests : Ingress(h)
    \/ \E h \in Requests : AddEvent(h)
    \/ \E h \in Requests : TurnStart(h, None)
    \/ \E h \in Requests : ModelResponds(h, RespFinal)
    \/ \E h \in Requests : ModelFails(h)

SpecRedelivery == InitIngress /\ [][NextRedelivery]_vars

\* The command line specification: agent.py alone, several user inputs, and
\* responses with a call, without one, and with an unclosed tag.
CliUserInputs == {<<"hi">>, <<"yo">>, <<"list", "events">>}
CliResponses == {RespFinal, RespLoadCalendar, RespUnclosed}

NextCli ==
    \/ \E user_input \in CliUserInputs : CliInput(user_input)
    \/ \E content \in CliResponses : CliModelResponds(content)
    \/ CliProcessCall

SpecCli == InitProgram("cli") /\ [][NextCli]_vars

\* The DynamoDB table stops or resumes answering.
StoreChanges ==
    /\ program = "server"
    /\ store_up' = ~store_up
    /\ UNCHANGED <<program, tool_manager, serverVars, turnVars, slack_posts,
                   conversation_history, now, ghostVars, auditVars, cliVars, unitVars>>

\* The engine specification: either entry point, one delivery, responses whose
\* calls fail in every way a call can fail, and a store that can fail.
NextEngine ==
    \/ StoreChanges
    \/ \E h \in 1..EngineRequests : Deliver(h, EnvHi1)
    \/ \E h \in Requests : Ingress(h)
    \/ \E h \in Requests : AddEvent(h)
    \/ \E h \in Requests, email \in Emails \cup {None} : TurnStart(h, email)
    \/ \E h \in Requests, content \in EngineResponses : ModelResponds(h, content)
    \/ \E h \in Requests : ModelFails(h)
    \/ \E h \in Requests : ProcessCall(h)
    \/ \E user_input \in UserInputs : CliInput(user_input)
    \/ \E content \in EngineResponses : CliModelResponds(content)
    \/ CliProcessCall

SpecEngine == Init /\ [][NextEngine]_vars

(***************************************************************************)
(* Properties.                                                             *)
(***************************************************************************)
InTurn == {"invoke", "exec"}

\* the deliveries that pass the filters of slack_events and carry a message
UserEvent(h) ==
    /\ envelope[h].type = "event_callback"
    /\ ~envelope[h].bot_id
    /\ envelope[h].etype \in {"message", "app_mention"}
    /\ ~envelope[h].subtype

Handled(h) == outcome[h] # "pending"

\* C1: Loop termination.  Each orchestrator loop stops after a fixed maximum
\* number of model invocations: a turn that has made that many invocations is
\* not about to invoke the model again.  The loops of the code keep no count,
\* so the claim is stated for the largest number of invocations explored.
C1_LoopTermination ==
    /\ \A h \in Requests : ~(pc[h] = "invoke" /\ invocations[h] >= MaxModelCalls)
    /\ ~(cli_pc = "invoke" /\ cli_invocations >= MaxModelCalls)

\* C2 as claimed: whatever is delivered in between, the deliveries of one
\* event (same ts, channel, user and text, here with a non-empty message)
\* together start exactly one turn.
C2_DedupIdempotence ==
    \A h \in Requests :
        (Handled(h) /\ UserEvent(h) /\ message_text_of(envelope[h]) # <<>>)
        => Cardinality({g \in Requests : /\ Handled(g)
                                         /\ envelope[g] = envelope[h]
                                         /\ outcome[g] = "turn"}) = 1

\* C2 as amended: a delivery whose key was added earlier, with no trim of the
\* dedup set since, is acknowledged with status ok, starts no turn and posts
\* nothing; and while the set was never trimmed, the deliveries of one event
\* together start exactly one turn when its message is not empty, none otherwise.
C2_DedupWithoutTrim ==
    /\ \A h \in Requests :
          seen_fresh[h] => /\ outcome[h] = "duplicate"
                           /\ response[h] = StatusOk
                           /\ slack_posts[h] = <<>>
                           /\ invocations[h] = 0
    /\ Range(insert_log) \subseteq fresh
       => \A h \in Requests :
             (Handled(h) /\ UserEvent(h))
             => Cardinality({g \in Requests : /\ Handled(g)
                                              /\ envelope[g] = envelope[h]
                                              /\ outcome[g] = "turn"})
                = IF message_text_of(envelope[h]) # <<>> THEN 1 ELSE 0

\* a duplicate was dropped after another event had been handled in between
C2_Witness ==
    \E h, g \in Requests :
        /\ seen_fresh[h] /\ pc[h] = "done"
        /\ outcome[g] = "turn" /\ envelope[g] = envelope[h]
        /\ \E k \in Requests : outcome[k] = "turn" /\ envelope[k] # envelope[h]
                               /\ g < k /\ k < h

\* C3: Dedup capacity.  Once more than the capacity of distinct keys were
\* added, the most recently added `capacity` keys are all still in the set,
\* and no key that was dropped is newer than a key that was kept.
C3_DedupCapacity ==
    Cardinality(Range(insert_log)) > ProcessedCap
    => /\ Range(LastN(insert_log, ProcessedCap)) \subseteq processed_events
       /\ \A i, j \in 1..Len(insert_log) :
             (i < j /\ insert_log[i] \in processed_events)
             => insert_log[j] \in processed_events

\* C4 as claimed: of two invocations of slack_events that were in flight
\* together with the same key, at most one observed the key as unseen.
ObservedUnseen(h) == pc[h] = "add" \/ outcome[h] \in {"turn", "empty"}

C4_ConcurrentCheckAndAdd ==
    \A h \in Requests : \A g \in peers[h] :
        (UserEvent(h) /\ envelope[g] = envelope[h])
        => ~(ObservedUnseen(h) /\ ObservedUnseen(g))

\* C4 as amended: the lookup and the add of one invocation run without any
\* other invocation in between (no second invocation runs while one is between
\* its lookup and its add, and the key it found unseen is still absent when it
\* adds it); an add drops no key unless it trims the set; so of two
\* invocations in flight together with the same key, the one that looks the
\* key up second finds it, unless the set was trimmed in between.
C4_AtomicCheckAndAdd ==
    /\ \A h \in Requests :
          pc[h] = "add"
          => /\ event_id(envelope[h]) \notin processed_events
             /\ \A g \in Requests \ {h} : pc[g] \in Suspended
    /\ fresh \subseteq processed_events
    /\ \A h \in Requests : \A g \in peers[h] :
          (/\ UserEvent(h) /\ envelope[g] = envelope[h]
           /\ ObservedUnseen(h) /\ ObservedUnseen(g))
          => ~seen_fresh[h] /\ ~seen_fresh[g]

\* two invocations with the same key were in flight together and the second
\* one to run found the key
C4_Witness ==
    \E h \in Requests : \E g \in peers[h] :
        /\ envelope[g] = envelope[h]
        /\ outcome[h] = "duplicate" /\ outcome[g] = "turn"

\* C5: Immediate acknowledgement.  The status response of an event that
\* starts a turn is returned without waiting for the turn: while the turn
\* invokes the model or executes calls, the response is already out.
C5_ImmediateAck ==
    \A h \in Requests : pc[h] \in InTurn => response[h] = StatusOk

\* C6: Turns run concurrently.  While one turn is blocked in a model
\* invocation or a capability execution, an invocation of slack_events for
\* another delivery can proceed.
C6_ConcurrentTurns ==
    \A h, g \in Requests :
        (pc[h] \in InTurn /\ pc[g] = "recv") => ENABLED Ingress(g)

\* C7: Reset at the start of a turn.  When a turn (Slack or command line) is
\* about to make its first model invocation, no category is loaded and the
\* available operations and signatures are exactly the meta-operations.
AtFirstInvocation ==
    \/ \E h \in Requests : pc[h] = "invoke" /\ invocations[h] = 0
    \/ cli_pc = "invoke" /\ cli_invocations = 0

C7_ToolsResetAtTurnStart ==
    AtFirstInvocation
    => /\ tool_manager.loaded_tools = <<>>
       /\ tool_manager.available_functions = meta_tool_functions
       /\ tool_manager.available_signatures =
              <<get_function_signatures(meta_tool_functions)>>

\* a turn starts after an earlier turn had loaded a category
C7_Witness == AtFirstInvocation /\ ever_loaded # {}

\* C8: The tool set only grows within a turn.  Whatever step is taken while a
\* turn is between its reset and its end, no loaded category, available
\* operation or signature is lost.
Grows ==
    /\ LoadedCategories(tool_manager) \subseteq LoadedCategories(tool_manager')
    /\ IsPrefix(tool_manager.available_functions, tool_manager'.available_functions)
    /\ IsPrefix(tool_manager.available_signatures, tool_manager'.available_signatures)

C8_ToolSetOnlyGrows ==
    [][((\E h \in Requests : pc[h] \in InTurn) \/ cli_pc \in InTurn) => Grows]_vars

\* a turn has loaded a category while another delivery is waiting
C8_Witness ==
    \E h, g \in Requests :
        /\ pc[h] \in InTurn /\ pc[g] = "recv"
        /\ tool_manager.loaded_tools # <<>>

\* C9: Idempotent loading.  The tool manager is what loading each of its
\* categories once gives (no category, operation or signature twice), and in
\* the memory of a turn every later load call of a known category already
\* loaded in the turn reports "already loaded".
RECURSIVE LoadedOnce(_)
LoadedOnce(categories) ==
    IF categories = <<>> THEN ToolManagerInit
    ELSE LET tm == LoadedOnce(SubSeq(categories, 1, Len(categories) - 1))
             c == Last(categories)
         IN [loaded_tools |-> Append(tm.loaded_tools, c),
             available_functions |-> tm.available_functions \o MetaTools(c).functions,
             available_signatures |->
                 Append(tm.available_signatures, MetaTools(c).signatures)]

NoDuplicates(s) == \A i, j \in 1..Len(s) : s[i] = s[j] => i = j

RepeatedLoads(memory) ==
    {j \in 1..Len(memory) :
        /\ memory[j].type = "tool_call"
        /\ IsMetaToolCall(memory[j].function)
        /\ ToolCategory(memory[j].function) \in Categories
        /\ \E i \in 1..(j - 1) : /\ memory[i].type = "tool_call"
                                  /\ memory[i].function = memory[j].function}

AlreadyLoadedReported(memory) ==
    \A j \in RepeatedLoads(memory) :
        memory[j].text = <<ToolCategory(memory[j].function), "tools already loaded">>

UnknownLoad(call) ==
    LET value == json_loads(call)
    IN /\ value.kind = "object"
       /\ "name" \in value.keys
       /\ IsMetaToolCall(value.name)
       /\ ToolCategory(value.name) \notin Categories

C10_UnknownCategory ==
    [][\A h \in Requests :
          (/\ pc[h] = "exec"
           /\ UnknownLoad(Head(tool_calls[h]))
           /\ <<pc[h], tool_calls[h]>>' # <<pc[h], tool_calls[h]>>)
          => /\ tool_manager' = tool_manager
             /\ tool_calls'[h] = Tail(tool_calls[h])
             /\ pc'[h] = IF Tail(tool_calls[h]) = <<>> THEN "invoke" ELSE "exec"
             /\ Len(current_interaction_memory'[h]) = Len(current_interaction_memory[h]) + 1
             /\ Last(current_interaction_memory'[h]) =
                    ToolCall(json_loads(Head(tool_calls[h])).name,
                             <<"Unknown tool category:",
                               ToolCategory(json_loads(Head(tool_calls[h])).name)>>)]_vars

\* an unknown category was reported, the next call of the batch ran, and the
\* model is invoked again
C10_Witness ==
    \E h \in Requests :
        /\ pc[h] = "invoke"
        /\ \E i \in 1..(Len(current_interaction_memory[h]) - 1) :
              /\ current_interaction_memory[h][i].type = "tool_call"
              /\ current_interaction_memory[h][i].text = <<"Unknown tool category:", "bogus">>
              /\ current_interaction_memory[h][i + 1].type = "tool_call"

\* the text of a call is not JSON
Unparseable(call) == json_loads(call).kind = "JSONDecodeError"

\* C11: Malformed block.  In the Slack turn and in the command line loop,
\* processing an extracted block that is not JSON appends a tool-result entry
\* with a diagnostic message to the interaction memory, and the entry is part
\* of the memory given to the next model invocation.
C11_MalformedBlockOutcome ==
    [][/\ \A h \in Requests :
             (/\ pc[h] = "exec"
              /\ Unparseable(Head(tool_calls[h]))
              /\ tool_calls'[h] # tool_calls[h])
             => /\ Len(current_interaction_memory'[h]) =
                       Len(current_interaction_memory[h]) + 1
                /\ Last(current_interaction_memory'[h]).type = "tool_call"
                /\ system_prompt'[h].memory = current_interaction_memory'[h]
       /\ (/\ cli_pc = "exec"
           /\ Unparseable(cli_calls[Len(cli_results) + 1])
           /\ <<cli_pc, cli_results>>' # <<cli_pc, cli_results>>)
          => /\ Len(cli_memory') = Len(cli_memory) + 1
             /\ Last(cli_memory').type = "tool_call"
             /\ Last(cli_memory').text = <<"Error: Invalid JSON format in tool call">>]_vars

\* C12: Batch isolation.  Whatever the first of several calls of a response
\* does (its text is not JSON, its JSON lacks a field or is not an object,
\* its operation is unknown, its arguments do not bind, or the operation
\* raises), the Slack turn goes on to the next call of the batch.
C12_BatchIsolation ==
    [][\A h \in Requests :
          (/\ pc[h] = "exec"
           /\ Len(tool_calls[h]) >= 2
           /\ tool_calls'[h] # tool_calls[h])
          => /\ pc'[h] = "exec"
             /\ tool_calls'[h] = Tail(tool_calls[h])]_vars

\* a request (an object with name and arguments) whose name is none of the
\* operations of the tool manager
NamesUnknownOperation(call) ==
    LET value == json_loads(call)
    IN /\ value.kind = "object"
       /\ {"name", "arguments"} \subseteq value.keys
       /\ value.name \notin Range(tool_manager.available_functions)

\* the failure texts of an unknown name: of the lookup and of the loader
UnknownNameOutcomes(name) ==
    {<<"Error: Function">> \o name \o <<"not found">>,
     <<"Unknown tool category:", ToolCategory(name)>>}

\* C13: Unknown operation.  Processing a request whose name is none of the
\* currently available operations records a failure outcome for it, executes
\* and loads nothing, and goes on with the next call of the batch or with the
\* next model invocation; in the Slack turn and in the command line loop.
C13_UnknownOperation ==
    [][/\ \A h \in Requests :
             (/\ pc[h] = "exec"
              /\ NamesUnknownOperation(Head(tool_calls[h]))
              /\ tool_calls'[h] # tool_calls[h])
             => /\ tool_manager' = tool_manager
                /\ tool_calls'[h] = Tail(tool_calls[h])
                /\ pc'[h] = IF Tail(tool_calls[h]) = <<>> THEN "invoke" ELSE "exec"
                /\ Last(current_interaction_memory'[h]).text \in
                       UnknownNameOutcomes(json_loads(Head(tool_calls[h])).name)
       /\ (/\ cli_pc = "exec"
           /\ NamesUnknownOperation(cli_calls[Len(cli_results) + 1])
           /\ <<cli_pc, cli_results>>' # <<cli_pc, cli_results>>)
          => /\ tool_manager' = tool_manager
             /\ Last(cli_memory').text \in
                    UnknownNameOutcomes(json_loads(cli_calls[Len(cli_results) + 1]).name)]_vars

\* a request that resolves to an available operation (not a load call) and
\* whose execution raises: the arguments do not bind, or the operation fails
FailsInOperation(call) ==
    LET value == json_loads(call)
    IN /\ value.kind = "object"
       /\ {"name", "arguments"} \subseteq value.keys
       /\ ~IsMetaToolCall(value.name)
       /\ value.name \in Range(tool_manager.available_functions)
       /\ value.arguments # "bindable"

ExecutionFailure(call) ==
    <<"Error executing">> \o json_loads(call).name
        \o <<":", ErrorText(json_loads(call).arguments)>>

\* C14: Failure of a resolved operation.  Processing a request whose operation
\* raises (arguments that do not bind included) records an outcome carrying
\* the error text and goes on with the batch or the next model invocation: the
\* turn does not end and nothing is posted but the execution notice.
C14_OperationFailureContained ==
    [][/\ \A h \in Requests :
             (/\ pc[h] = "exec"
              /\ FailsInOperation(Head(tool_calls[h]))
              /\ tool_calls'[h] # tool_calls[h])
             => /\ tool_calls'[h] = Tail(tool_calls[h])
                /\ pc'[h] = IF Tail(tool_calls[h]) = <<>> THEN "invoke" ELSE "exec"
                /\ slack_posts'[h] = Append(slack_posts[h], "executing")
                /\ Last(current_interaction_memory'[h]) =
                       ToolCall(json_loads(Head(tool_calls[h])).name,
                                ExecutionFailure(Head(tool_calls[h])))
       /\ (/\ cli_pc = "exec"
           /\ FailsInOperation(cli_calls[Len(cli_results) + 1])
           /\ <<cli_pc, cli_results>>' # <<cli_pc, cli_results>>)
          => /\ cli_pc' = IF Len(cli_results) + 1 = Len(cli_calls)
                          THEN "invoke" ELSE "exec"
             /\ Last(cli_memory').text =
                    ExecutionFailure(cli_calls[Len(cli_results) + 1])]_vars

\* a turn is about to invoke the model again after a binding failure and a
\* raising operation in one batch
C14_Witness ==
    \E h \in Requests :
        /\ pc[h] = "invoke"
        /\ \E i, j \in 1..Len(current_interaction_memory[h]) :
              /\ current_interaction_memory[h][i].text =
                     ExecutionFailure(<<"J_events_badkey">>)
              /\ current_interaction_memory[h][j].text =
                     ExecutionFailure(<<"J_events_raises">>)

\* the blocks extracted from the model responses of a memory, in order
RECURSIVE ExtractedCalls(_)
ExtractedCalls(memory) ==
    IF memory = <<>> THEN <<>>
    ELSE ExtractedCalls(SubSeq(memory, 1, Len(memory) - 1)) \o
         (IF Last(memory).type = "agent_response"
          THEN extract_tool_calls(Last(memory).text) ELSE <<>>)

\* a block that parses as a request: the loops dispatch it
IsRequest(call) == json_loads(call).kind = "object"

Requested(calls) == SelectSeq(calls, IsRequest)

\* what the Slack turn tracks of a request when it dispatches it
Tracked(call) ==
    [function |-> DictGet(json_loads(call), "name", <<"unknown">>),
     arguments |-> DictGet(json_loads(call), "arguments", "none")]

\* the calls the command line loop has dispatched: its memory keeps their text
CliDispatched ==
    LET entries == SelectSeq(cli_memory, LAMBDA e : e.type = "tool_call")
    IN [i \in 1..Len(entries) |-> entries[i].call]

CliPending == SubSeq(cli_calls, Len(cli_results) + 1, Len(cli_calls))

\* While a turn runs, the requests it has dispatched, followed by the requests
\* of the current response still to be processed, are exactly the requests
\* extracted from its model responses, in order and each once.
DispatchedOnce ==
    /\ \A h \in Requests :
          pc[h] \in InTurn
          => LET all == Requested(ExtractedCalls(current_interaction_memory[h]))
                 pending == Requested(tool_calls[h])
             IN [i \in 1..Len(all) |-> Tracked(all[i])] =
                    tool_calls_made[h] \o [i \in 1..Len(pending) |-> Tracked(pending[i])]
    /\ cli_pc \in InTurn
       => Requested(CliDispatched) \o Requested(CliPending) =
              Requested(ExtractedCalls(cli_memory))

\* C15: Exactly once.  Every request extracted from a model response of a
\* turn is dispatched exactly once: none is dispatched again by a prompt
\* rebuild or a later iteration, and the turn does not end while requests of
\* the current response are still to be dispatched.
C15_ExecutedExactlyOnce ==
    /\ []DispatchedOnce
    /\ [][\A h \in Requests :
             (pc[h] = "exec" /\ pc'[h] \notin InTurn)
             => \A i \in 2..Len(tool_calls[h]) :
                   ~({"name", "arguments"} \subseteq json_loads(tool_calls[h][i]).keys)]_vars

\* the text holds a complete marker pair: an opening tag with a closing tag after it
HasBlock(text) ==
    \E i, j \in 1..Len(text) : i < j /\ text[i] = OpenTag /\ text[j] = CloseTag

Finals(posts) == Len(SelectSeq(posts, LAMBDA kind : kind = "final"))

Notices(posts) == Len(SelectSeq(posts, LAMBDA kind : kind = "error"))

\* the turn of h has delivered a final answer or a failure notice
Delivered(h) == Finals(slack_posts[h]) + Notices(slack_posts[h]) > 0

\* the invocation of h started a turn that is over
EndedTurn(h) == pc[h] = "done" /\ outcome[h] = "turn"

\* C17: Every started Slack turn delivers a final answer or a failure notice.
\* A turn that is over posted one of the two last, and a turn does not go on
\* without end: one that has made the largest number of model invocations
\* explored and stands at the head of its loop again has delivered one of the
\* two.
C17_TurnDelivers ==
    \A h \in Requests :
        /\ EndedTurn(h) => (Delivered(h) /\ Last(slack_posts[h]) \in {"final", "error"})
        /\ (pc[h] = "invoke" /\ invocations[h] >= MaxModelCalls) => Delivered(h)

\* C18: Model backend failure.  The step in which server.model.invoke raises in
\* the turn of h takes the turn from the head of its loop to its end and posts
\* the failure notice, and executes nothing; from then on the turn stays
\* over: it invokes the model no more, executes nothing and posts nothing.
C18_ModelFailureEndsTurn ==
    [][\A h \in Requests :
          /\ (failure[h] = "" /\ failure'[h] = "ModelError")
             => /\ pc[h] = "invoke" /\ pc'[h] = "done"
                /\ slack_posts'[h] = Append(slack_posts[h], "error")
                /\ tool_manager' = tool_manager
                /\ conversation_history' = conversation_history
          /\ failure[h] = "ModelError"
             => /\ pc[h] = "done" /\ pc'[h] = "done"
                /\ invocations'[h] = invocations[h]
                /\ slack_posts'[h] = slack_posts[h]]_vars

\* the backend failed in a turn that had executed a call before
C18_Witness ==
    \E h \in Requests :
        /\ failure[h] = "ModelError"
        /\ pc[h] = "done"
        /\ slack_posts[h] = <<"executing", "error">>

\* C19: Conversation Store failure.  A turn in which a store operation failed
\* (the save of the user message, the read of the context or the save of the
\* assistant message) is over, and the last thing it posted is the failure
\* notice: it is not at its loop, and it did not end on a final answer.
C19_StoreFailureEndsTurn ==
    \A h \in Requests :
        store_ops[h].failures > 0
        => /\ EndedTurn(h)
           /\ slack_posts[h] # <<>>
           /\ Last(slack_posts[h]) = "error"

\* C20: No partial writes.  A turn that ended by a failure instead of a final
\* answer has written no message to the Conversation Store (no message is
\* ever removed from the store, so what a turn wrote stays there).
C20_NoPartialWrites ==
    \A h \in Requests :
        (EndedTurn(h) /\ failure[h] # "" /\ Finals(slack_posts[h]) = 0)
        => store_ops[h].writes = 0

\* C21: Append-on-completion.  Every append that a turn makes to the
\* Conversation Store happens in the step that completes the turn: a step in
\* which the turn of h writes a message is a step that ends that turn.
C21_AppendOnCompletion ==
    [][\A h \in Requests :
          store_ops'[h].writes > store_ops[h].writes => pc'[h] = "done"]_vars

\* the step in which the update_item of caller c's append is applied
AppliesUpdate(c) == client[c].pc = "update_item" /\ client'[c].pc = "idle"

\* C22: Atomic append.  Whatever the interleaving of the callers of
\* update_conversation_history, the list of an identity that no cleanup has
\* rewritten holds every message appended for it, each once; and the step
\* that applies an append for one identity appends that one message to that
\* identity's list and leaves the list of every other identity as it was.
C22_AtomicAppend ==
    /\ [](\A e \in Identities :
             ~pruned[e]
             => /\ Range(conversation_history[e]) = applied[e]
                /\ Len(conversation_history[e]) = Cardinality(applied[e]))
    /\ [][\A c \in Clients :
             AppliesUpdate(c)
             => \A e \in Identities :
                    conversation_history'[e] =
                        IF e = client[c].email
                        THEN Append(conversation_history[e], client[c].new_message)
                        ELSE conversation_history[e]]_vars

\* two appends for one identity overlapped: the message stamped first was
\* applied second, and both are in the list
C22_Witness ==
    \E e \in Identities :
        /\ ~pruned[e]
        /\ Len(conversation_history[e]) = 2
        /\ conversation_history[e][1].timestamp > conversation_history[e][2].timestamp

\* C23: Bounded read.  A get_conversation_history(identity, k) that found N
\* messages in the list, with 0 <= k < N, returned exactly the last k of
\* them, in the order of the list.
C23_BoundedRead ==
    \A c \in Clients :
        (client[c].op = "get" /\ client[c].limit < Len(client[c].item))
        => client[c].returned =
               SubSeq(client[c].item, Len(client[c].item) - client[c].limit + 1,
                      Len(client[c].item))

\* the step in which caller c's cleanup writes the filtered list
WritesCleanup(c) == client[c].pc = "cleanup_write" /\ client'[c].pc = "idle"

\* C24: Prune.  The write of cleanup_old_conversations(identity) leaves in
\* that identity's list exactly the entries it held whose timestamp is not
\* older than the cutoff, in their order, and leaves the list of every other
\* identity as it was.
C24_PruneRemovesOnlyOld ==
    [][\A c \in Clients :
          WritesCleanup(c)
          => \A e \in Identities :
                 conversation_history'[e] =
                     IF e = client[c].email
                     THEN filtered_history(conversation_history[e],
                                           client[c].cutoff_timestamp)
                     ELSE conversation_history[e]]_vars

NonDecreasing(history) ==
    \A i, j \in 1..Len(history) :
        i < j => history[i].timestamp <= history[j].timestamp

\* C25: Timestamp order.  The list of every identity is non-decreasing in
\* timestamp in every state, and the write of a cleanup removes a contiguous
\* oldest prefix of the list: what it leaves is a suffix of what was there.
C25_TimestampOrder ==
    /\ [](\A e \in Identities : NonDecreasing(conversation_history[e]))
    /\ [][\A c \in Clients :
             WritesCleanup(c)
             => LET before == conversation_history[client[c].email]
                    after == conversation_history'[client[c].email]
                IN /\ Len(after) <= Len(before)
                   /\ after = SubSeq(before, Len(before) - Len(after) + 1,
                                     Len(before))]_vars

\* the prompt of a message list replays `memory` whole and in order, and
\* lists the signatures the tool manager has available
CarriesMemory(msgs, memory) ==
    /\ msgs.system.memory = memory
    /\ msgs.system.tools = tool_manager.available_signatures

\* C26: Prompt rebuild.  At every model invocation after the first of a turn,
\* the prompt about to be handed to the model holds every interaction-memory
\* entry of the turn so far, in order, and the signatures of every category
\* loaded so far, in the Slack turn and in the command line loop.
C26_PromptCarriesMemory ==
    /\ \A h \in Requests :
           (pc[h] = "invoke" /\ invocations[h] >= 1)
           => CarriesMemory(messages[h], current_interaction_memory[h])
    /\ (cli_pc = "invoke" /\ cli_invocations >= 1)
       => CarriesMemory(cli_messages, cli_memory)

Running(h) == pc[h] \in InTurn

\* C27: Interaction memory.  Within a turn the memory only grows at its end:
\* a model response is appended as an agent-text entry when no call of the
\* response before it is left to process, and its calls are then extracted
\* in source order; each step of the processing takes the first call that is
\* left and appends at most one entry, the outcome of that call; and no step
\* of a running turn removes or reorders an entry.  Likewise in the command
\* line loop, where every call leaves an entry that records its text.
C27_MemoryChronological ==
    [][/\ \A h \in Requests :
             LET before == current_interaction_memory[h]
                 after == current_interaction_memory'[h]
             IN /\ (pc[h] = "invoke" /\ pc'[h] = "exec")
                   => /\ tool_calls[h] = <<>>
                      /\ Len(after) = Len(before) + 1
                      /\ Last(after).type = "agent_response"
                      /\ tool_calls'[h] = extract_tool_calls(Last(after).text)
                /\ (pc[h] = "exec" /\ Running(h)'
                       /\ <<pc[h], tool_calls[h], before>> # <<pc'[h], tool_calls'[h], after>>)
                   => /\ tool_calls'[h] = Tail(tool_calls[h])
                      /\ \/ after = before
                         \/ /\ Len(after) = Len(before) + 1
                            /\ Last(after).type = "tool_call"
                            /\ Last(after).function =
                                   DictGet(json_loads(Head(tool_calls[h])), "name",
                                           <<"unknown">>)
                /\ (Running(h) /\ Running(h)') => IsPrefix(before, after)
       /\ (cli_pc = "invoke" /\ cli_pc' = "exec")
          => /\ Last(cli_memory').type = "agent_response"
             /\ cli_calls' = extract_tool_calls(Last(cli_memory').text)
       /\ cli_pc = "exec"
          => /\ Last(cli_memory').type = "tool_call"
             /\ Last(cli_memory').call = cli_calls[Len(cli_results) + 1]
       /\ cli_pc # "input"
          => /\ Len(cli_memory') = Len(cli_memory) + 1
             /\ IsPrefix(cli_memory, cli_memory')]_vars

\* a Slack turn whose memory holds a response followed by the outcomes of its
\* two calls
C27_Witness ==
    \E h \in Requests :
        /\ pc[h] = "invoke"
        /\ Len(current_interaction_memory[h]) = 3
        /\ current_interaction_memory[h][1].type = "agent_response"
        /\ current_interaction_memory[h][2].function = <<"get_", "bogus", "_tools">>
        /\ current_interaction_memory[h][3].function = <<"get_", "calendar_events">>

Blanks(n) == [i \in 1..n |-> Blank]

\* r is s without its leading and trailing blanks
Stripped(s, r) ==
    /\ \E i, j \in 0..Len(s) : s = Blanks(i) \o r \o Blanks(j)
    /\ r = <<>> \/ (Head(r) # Blank /\ Last(r) # Blank)

Positions(text, tok) == {i \in 1..Len(text) : text[i] = tok}

\* the text is prose, then two blocks: its markers are an opening, a
\* closing, an opening and a closing tag, after a first part with a word
TwoBlocks(text) ==
    \E o1, c1, o2, c2 \in 1..Len(text) :
        /\ o1 < c1 /\ c1 < o2 /\ o2 < c2
        /\ Positions(text, OpenTag) = {o1, o2}
        /\ Positions(text, CloseTag) = {c1, c2}
        /\ \E i \in 1..(o1 - 1) : text[i] # Blank

\* C28: Extraction.  For prose followed by two well-formed blocks,
\* extract_tool_calls returns exactly two texts, the insides of the first and
\* of the second block in that order, each without leading and trailing
\* blanks, and the text before the first opening marker, stripped, is the
\* prose and is not empty; for a text with no opening marker followed by a
\* closing marker it returns no call.
C28_Extraction ==
    extract_pc = "done"
    => /\ TwoBlocks(given_text)
          => \E o1, c1, o2, c2 \in 1..Len(given_text) :
                 /\ o1 < c1 /\ c1 < o2 /\ o2 < c2
                 /\ Positions(given_text, OpenTag) = {o1, o2}
                 /\ Positions(given_text, CloseTag) = {c1, c2}
                 /\ Len(extracted) = 2
                 /\ Stripped(SubSeq(given_text, o1 + 1, c1 - 1), extracted[1])
                 /\ Stripped(SubSeq(given_text, o2 + 1, c2 - 1), extracted[2])
                 /\ Stripped(SubSeq(given_text, 1, o1 - 1), text_before_tools)
                 /\ text_before_tools # <<>>
       /\ ~HasBlock(given_text) => extracted = <<>>

\* two blocks with blanks around their insides were extracted
C28_Witness ==
    /\ extract_pc = "done"
    /\ given_text = <<Blank, "thinking", Blank>> \o Block(<<Blank, "J_events", Blank>>)
                        \o <<"then">> \o Block(<<"{", Blank, "}">>)
    /\ extracted = << <<"J_events">>, <<"{", Blank, "}">> >>
    /\ text_before_tools = <<"thinking">>

\* the delivery to h is an event_callback whose event carries a bot_id or a
\* subtype
BotOrSubtype(h) ==
    /\ envelope[h].json = "object"
    /\ envelope[h].type = "event_callback"
    /\ envelope[h].bot_id \/ envelope[h].subtype

\* C29: Bot and system events.  An event_callback whose event carries a
\* bot_id or a subtype never starts a turn (nothing is posted and the model
\* is not invoked for it), the step that handles it leaves the dedup set as
\* it was, and the answer it gets is status ok.
C29_BotAndSubtypeSkipped ==
    /\ [](\A h \in Requests :
             BotOrSubtype(h)
             => /\ pc[h] \in {"recv", "done"}
                /\ outcome[h] \in {"pending", "bot", "ignored"}
                /\ slack_posts[h] = <<>>
                /\ invocations[h] = 0
                /\ pc[h] = "done" => response[h] = StatusOk)
    /\ [][\A h \in Requests :
             (BotOrSubtype(h) /\ pc'[h] # pc[h])
             => processed_events' = processed_events]_vars

\* after a message was handled and its key added, an edit of a message was
\* answered with status ok
C29_Witness ==
    \E h \in Requests :
        /\ processed_events # {}
        /\ BotOrSubtype(h) /\ envelope[h].subtype
        /\ pc[h] = "done" /\ response[h] = StatusOk

\* the delivery to h is malformed: its body is not a JSON object, or its
\* event has no text or a text that is not a string
Malformed(h) == envelope[h] \in {EnvNotObject, EnvNoText, EnvTextNull}

\* C30: Malformed envelopes.  A malformed delivery is a no-op that is
\* acknowledged: the answer it gets is the normal status ok, it starts no
\* turn, and no step that handles it changes the dedup set.
C30_MalformedAcknowledged ==
    /\ [](\A h \in Requests :
             Malformed(h)
             => /\ pc[h] = "done" => response[h] = StatusOk
                /\ outcome[h] # "turn"
                /\ slack_posts[h] = <<>>)
    /\ [][\A h \in Requests :
             (Malformed(h) /\ pc'[h] # pc[h])
             => processed_events' = processed_events]_vars
(***************************************************************************)
(* Endpoint verification.                                                  *)
(***************************************************************************)
Verification(h) ==
    envelope[h].json = "object" /\ envelope[h].type = "url_verification"

\* C31: a url_verification envelope is answered with the supplied challenge
\* token unchanged; handling it leaves the dedup set as it was, posts nothing
\* and starts no turn, neither in the handling step nor afterwards.
C31_ChallengeEchoed ==
    /\ [][\A h \in Requests :
              pc[h] = "recv" /\ Verification(h) /\ pc'[h] # "recv"
              => /\ pc'[h] = "done"
                 /\ response'[h] = [status |-> None, challenge |-> envelope[h].challenge]
                 /\ processed_events' = processed_events
                 /\ insert_log' = insert_log
                 /\ slack_posts' = slack_posts]_vars
    /\ [](\A h \in Requests :
              Verification(h)
              => /\ pc[h] \in {"recv", "done"}
                 /\ invocations[h] = 0
                 /\ slack_posts[h] = <<>>
                 /\ current_interaction_memory[h] = <<>>)

\* a verification answered with its token while the dedup set holds a key
C31_Witness ==
    \E h \in Requests :
        /\ pc[h] = "done"
        /\ envelope[h] = EnvChallenge2
        /\ response[h].challenge = "Xq9fT0pL"
        /\ processed_events # {}
(***************************************************************************)
(* Notifications.                                                          *)
(***************************************************************************)
\* C32: whenever update_message fails to update the message (the client is
\* missing or the update request raises), the next thing it does is call
\* post_message with the text, channel and thread of the call; an update that
\* succeeds posts nothing.
C32_UpdateFallsBack ==
    LET posts == SelectSeq(slack_calls, LAMBDA c : c.name = "post_message")
    IN update_calls > 0
       => IF update_failed
          THEN /\ Len(posts) = 1
               /\ posts[1] = Called("post_message", update_args.channel,
                                     update_args.text, update_args.thread_ts)
               /\ \A i \in 1..Len(slack_calls) :
                      slack_calls[i].name = "chat_postMessage"
                      => /\ i > 1 /\ slack_calls[i - 1] = posts[1]
                         /\ slack_calls[i].channel = update_args.channel
                         /\ slack_calls[i].text = update_args.text
                         /\ slack_calls[i].thread_ts = update_args.thread_ts
          ELSE slack_calls = <<WebApiRequest("chat_update", update_args.channel,
                                          update_args.text, update_args.message_ts, None)>>

\* an update in a thread whose request failed and whose text was posted anew
C32_Witness ==
    /\ update_failed
    /\ update_args.thread_ts = "12.0"
    /\ Len(slack_calls) = 3
    /\ slack_calls[1].name = "chat_update"
    /\ slack_calls[3].name = "chat_postMessage"
    /\ slack_calls[3].thread_ts = "12.0"
(***************************************************************************)
(* The calendar scenario.                                                  *)
(***************************************************************************)
LoadCalendar == <<"get_", "calendar", "_tools">>
ListEvents == <<"get_", "calendar_events">>

\* what the turn has gathered when the model is invoked the third time
ScenarioMemory ==
    <<AgentResponse(RespLoadCalendar),
      ToolCall(LoadCalendar, <<"Loaded", "calendar", "tools successfully">>),
      AgentResponse(RespEvents),
      ToolCall(ListEvents, <<"result of">> \o ListEvents)>>

AddsEvent(h) == pc[h] = "add" /\ pc'[h] # "add"

C35_CleanupKeepsAppended ==
    [][\A c \in Clients :
          WritesCleanup(c)
          => LET e == client[c].email
             IN \A m \in applied[e] :
                    /\ m \in Range(conversation_history[e])
                    /\ m.timestamp >= client[c].cutoff_timestamp
                    => m \in Range(conversation_history'[e])]_vars
(***************************************************************************)
(* Load before use.                                                        *)
(***************************************************************************)
\* the categories an operation name belongs to
CategoriesOf(name) == {cat \in Categories : name \in Range(MetaTools(cat).functions)}

\* a request (an object with name and arguments) for an operation of a category
CategoryRequest(call) ==
    LET value == json_loads(call)
    IN /\ value.kind = "object"
       /\ {"name", "arguments"} \subseteq value.keys
       /\ CategoriesOf(value.name) # {}

\* the categories whose load was processed successfully, by the memory of a turn
LoadedInTurn(memory) ==
    {cat \in Categories :
        \E i \in 1..Len(memory) :
            /\ memory[i].type = "tool_call"
            /\ memory[i].text = <<"Loaded", cat, "tools successfully">>}

NotFound(name) == <<"Error: Function">> \o name \o <<"not found">>

\* what a turn with this memory does with the request `call`
LoadBeforeUse(call, memory, after) ==
    LET name == json_loads(call).name
    IN /\ after # <<>>
       /\ Last(after).function = name
       /\ IF CategoriesOf(name) \subseteq LoadedInTurn(memory)
          THEN Last(after).text # NotFound(name)
          ELSE /\ Last(after).text = NotFound(name)
               /\ tool_manager' = tool_manager

\* C36: load before use.  While a turn runs, the operations available are
\* the bootstrap operations and those of the categories whose load call was
\* processed successfully in this turn; a request for an operation of a
\* category is executed only after such a load, and before it the request is
\* answered "not found", the tool manager is left alone, and the turn goes on.
\* In the Slack turn and in the command line loop.
C36_LoadBeforeUse ==
    /\ [](\A h \in Requests :
              pc[h] \in InTurn
              => LoadedCategories(tool_manager) = LoadedInTurn(current_interaction_memory[h]))
    /\ [](cli_pc \in InTurn => LoadedCategories(tool_manager) = LoadedInTurn(cli_memory))
    /\ [][/\ \A h \in Requests :
                (/\ pc[h] = "exec"
                 /\ CategoryRequest(Head(tool_calls[h]))
                 /\ tool_calls'[h] # tool_calls[h])
                => /\ pc'[h] \in InTurn
                   /\ LoadBeforeUse(Head(tool_calls[h]), current_interaction_memory[h],
                                     current_interaction_memory'[h])
          /\ (/\ cli_pc = "exec"
              /\ CategoryRequest(cli_calls[Len(cli_results) + 1])
              /\ <<cli_pc, cli_results>>' # <<cli_pc, cli_results>>)
             => LoadBeforeUse(cli_calls[Len(cli_results) + 1], cli_memory, cli_memory')]_vars

\* a Slack turn in which get_calendar_events was refused before the load of
\* the calendar category and executed after it
C36_Witness ==
    \E h \in Requests :
        \E i, j, k \in 1..Len(current_interaction_memory[h]) :
            /\ i < j /\ j < k
            /\ current_interaction_memory[h][i] = ToolCall(ListEvents, NotFound(ListEvents))
            /\ current_interaction_memory[h][j].text =
                   <<"Loaded", "calendar", "tools successfully">>
            /\ current_interaction_memory[h][k] =
                   ToolCall(ListEvents, <<"result of">> \o ListEvents)
(***************************************************************************)
(* Redelivery after a failure.                                             *)
(***************************************************************************)
\* the handler of delivery h looks its key up, and an earlier delivery of the
\* same event has ended in a failed turn or carried no message text
RedeliveryLookup(h) ==
    /\ pc[h] = "recv" /\ pc'[h] # "recv"
    /\ UserEvent(h)
    /\ \E g \in Requests \ {h} :
           /\ envelope[g] = envelope[h]
           /\ pc[g] = "done"
           /\ failure[g] # "" \/ outcome[g] = "empty"

Dropped(h) ==
    pc'[h] = "done" /\ outcome'[h] = "duplicate" /\ response'[h] = StatusOk

\* C37 as claimed: a redelivery of an event whose turn ended in failure, or
\* whose text was empty, is dropped as a duplicate.
C37_RedeliveryDropped ==
    [][\A h \in Requests : RedeliveryLookup(h) => Dropped(h)]_vars

\* C37 as amended: the key of an event is in the dedup set when its turn
\* starts and while it runs, unless a trim has run since the key was added;
\* the failure of a turn leaves the dedup set as it is; and a redelivery of
\* an event whose turn failed or whose text was empty is dropped as a
\* duplicate when the set was not trimmed since the key was added.
C37_RedeliveryDroppedWithoutTrim ==
    /\ [](\A g \in Requests :
              /\ pc[g] \in {"turn"} \cup InTurn
              /\ event_id(envelope[g]) \in fresh
              => event_id(envelope[g]) \in processed_events)
    /\ [][\A g \in Requests :
              failure'[g] # failure[g]
              => processed_events' = processed_events /\ fresh' = fresh]_vars
    /\ [][\A h \in Requests :
              RedeliveryLookup(h) /\ event_id(envelope[h]) \in fresh
              => Dropped(h)]_vars

\* a redelivery dropped after the turn of the event had failed
C37_Witness ==
    \E g, h \in Requests :
        /\ g # h /\ envelope[g] = envelope[h]
        /\ pc[g] = "done" /\ failure[g] = "ModelError"
        /\ pc[h] = "done" /\ outcome[h] = "duplicate" /\ seen_fresh[h]
(***************************************************************************)
(* A sender without identity.                                              *)
(***************************************************************************)
\* a step of the turn of delivery h
TurnStep(h) ==
    /\ pc[h] \in {"turn"} \cup InTurn
    /\ <<pc[h], tool_calls[h], invocations[h]>> # <<pc'[h], tool_calls'[h], invocations'[h]>>

\* the sender of the turn is unresolved: user_email is None from line 124 on
Unresolved(h) == IF pc[h] = "turn" THEN user_email'[h] = None /\ pc'[h] # "done"
                 ELSE user_email[h] = None

\* C38: a Slack turn whose sender could not be resolved makes no request to
\* the Conversation Store, neither a read nor a write, in any of its steps;
\* it builds its prompt without context, goes on to invoke the model, and a
\* response without calls is posted as the final text.
C38_UnresolvedSenderSkipsStore ==
    [][\A h \in Requests :
          TurnStep(h) /\ Unresolved(h)
          => /\ conversation_history' = conversation_history
             /\ store_ops'[h] = store_ops[h]
             /\ now' = now
             /\ pc[h] = "turn"
                => /\ pc'[h] = "invoke"
                   /\ conversation_context'[h] = <<>>
                   /\ system_prompt'[h].context = <<>>
             /\ (pc[h] = "invoke" /\ pc'[h] = "done" /\ failure'[h] = "")
                => slack_posts'[h] = Append(slack_posts[h], "final")]_vars

\* the turn of an unresolved sender has loaded a category, run an operation
\* and posted its final text, while the store was answering
C38_Witness ==
    \E h \in Requests :
        /\ pc[h] = "done" /\ outcome[h] = "turn" /\ failure[h] = ""
        /\ store_up
        /\ store_ops[h] = StoreOps(0, 0, 0)
        /\ invocations[h] >= 2
        /\ Finals(slack_posts[h]) = 1
(***************************************************************************)
(* The conversation context.                                               *)
(***************************************************************************)
\* the names of the operations stored with a message
StoredNames(msg) == [j \in 1..Len(msg.tool_calls) |-> msg.tool_calls[j].function]

\* the lines of the context follow the stored messages, oldest first
Chronological(context, recent) ==
    /\ Len(context) = Len(recent)
    /\ \A i \in 1..Len(recent) :
           /\ context[i].message_type = recent[i].message_type
           /\ context[i].content = recent[i].content

\* every line of the context shows the operation names stored with its message
ShowsStoredNames(context, stored) ==
    \A i \in 1..Len(context) :
        \E k \in 1..Len(stored) :
            /\ context[i].content = stored[k].content
            /\ context[i].message_type = stored[k].message_type
            /\ context[i].tools = StoredNames(stored[k])

\* C39: the context a turn was given lists the stored messages of its sender
\* oldest first, and the tools line of each assistant message shows the names
\* of the operations stored with that message.
C39_ContextFaithful ==
    \A h \in Requests :
        (pc[h] \in InTurn /\ user_email[h] # None /\ conversation_context[h] # <<>>)
        => LET recent == LastN(conversation_history[user_email[h]], ContextLimit)
           IN /\ Chronological(conversation_context[h], recent)
              /\ ShowsStoredNames(conversation_context[h], recent)
(***************************************************************************)
(* The conversation history of the command line loop.                      *)
(***************************************************************************)
Human(text) == [role |-> "human", text |-> text]
Assistant(text) == [role |-> "assistant", text |-> text]

\* the step in which a turn of the command line loop is completed
CliCompletes == cli_pc = "invoke" /\ cli_pc' = "input"

\* C40: the conversation history of the command line loop never holds more
\* than its cap of entries; it changes only when a turn is completed, and
\* then it becomes the old history followed by the user input and the final
\* response of the turn, cut to its last entries when longer than the cap; so
\* it is a sequence of (user input, final response) pairs, and it holds no
\* response with calls and no tool results.
C40_CliHistoryBounded ==
    /\ [](/\ Len(cli_history) <= CliHistoryCap
          /\ Len(cli_history) % 2 = 0
          /\ \A i \in 1..Len(cli_history) :
                 IF i % 2 = 1
                 THEN /\ cli_history[i].role = "human"
                      /\ cli_history[i].text \in CliUserInputs
                 ELSE /\ cli_history[i].role = "assistant"
                      /\ extract_tool_calls(cli_history[i].text) = <<>>)
    /\ [][cli_history' # cli_history => CliCompletes]_vars
    /\ [][CliCompletes
          => LET exchange == <<Human(cli_user_input), Assistant(Last(cli_memory').text)>>
                 history == cli_history \o exchange
             IN cli_history' = IF Len(history) > CliHistoryCap
                               THEN SubSeq(history, Len(history) - CliHistoryCap + 1,
                                           Len(history))
                               ELSE history]_vars

\* three turns were completed and the history holds the second and the third
\* exchange, in that order
C40_Witness ==
    /\ cli_pc = "input" /\ cli_turn = 3
    /\ cli_history = <<Human(<<"yo">>), Assistant(RespUnclosed),
                       Human(<<"list", "events">>), Assistant(RespFinal)>>
====
